---- MODULE Spec2Model ----
(***************************************************************************)
(* Model of the Socio.io content-moderation content scripts.               *)
(*                                                                         *)
(* Two builds of the extension exist in the repository:                    *)
(*   script = "content"     extension/content.js                           *)
(*   script = "contentNew"  extension/content-new.js, whose image path is  *)
(*                          processImageElement of image-processor.js      *)
(* Both share the background script (unnamed/part_001) and the browser's   *)
(* key/value storage.  One step of the model is one task of the page's     *)
(* event loop together with the microtasks it leaves behind.               *)
(***************************************************************************)
EXTENDS Integers, Sequences, FiniteSets, Bags, TLC

(* ------------------------------ bounds -------------------------------- *)
NumText == 10
NumDynamic == 2
NumImages == 1
MaxRecords == 105
MaxToggles == 2
MaxDetaches == 1
MaxElements == 2
MaxRecoveries == 2
MaxReloads == 1
MaxTests == 2
MaxClicks == 3

(* ------------------------- program constants -------------------------- *)
HISTORY_CAP == 100

BATCH_SIZE == 5
BATCH_SIZE_NEW == 10

EXCLUSION_CLASS == "socioio-processed"
FILTERED_CLASS == "socioio-filtered-text"
ENCRYPTED_CLASS == "socioio-encrypted"

PLACEHOLDER == "[Content filtered by Socio.io]"
PROCESSED_TEXT == "processed_text"

(* ----------------------------- the page ------------------------------- *)
TextElems == 1..NumText
ImageElems == (NumText + 1)..(NumText + NumImages)
Elems == TextElems \cup ImageElems
IsText(e) == e \in TextElems

\* Texts a page element can carry: "" is empty or whitespace-only, "profane"
\* is a text of at most 200 characters with a listed word as a whole word,
\* "clean" is any other text.
PageTexts == {"", "clean", "profane"}
\* Image sources: "" is no source, "xxx.jpg" has an explicit keyword in its URL.
PageSrcs == {"", "xxx.jpg", "photo.jpg"}

\* Action strings a backend reply can carry.
ReplyActions == {"keep", "allow", "encrypt", "remove", "blur", "block", "flag"}

StorageKeys == {"textFiltered", "imagesFiltered", "imageFiltered"}

VARIABLES
    script, testPage, lastLoaded,
    isEnabled, initPending, listeners, dclPending, rescanTimers, batchTimers,
    processingQueue, currentlyProcessing, batch, inFlight, wait, loadTimer,
    textElementsProcessed, imageElementsProcessed, encryptedElements,
    dom, content, classes, filter, wrapper, overlay, notice, load,
    outcome,
    counters, counterOps, filterHistory, historyOps, records,
    enqueued, dispatched, redacted, historyCalls, statsCalls,
    toggles, detaches,
    pageContent, notifications, sessionStore, recoveries, reloads, tests,
    stylesInjected, overlayStyle, clicks,
    sample

config == <<script, testPage, lastLoaded>>
vars == <<script, testPage, lastLoaded,
          isEnabled, initPending, listeners, dclPending, rescanTimers,
          batchTimers,
          processingQueue, currentlyProcessing, batch, inFlight, wait, loadTimer,
          textElementsProcessed, imageElementsProcessed, encryptedElements,
          dom, content, classes, filter, wrapper, overlay, notice, load,
          outcome,
          counters, counterOps, filterHistory, historyOps, records,
          enqueued, dispatched, redacted, historyCalls, statsCalls,
          toggles, detaches,
          pageContent, notifications, sessionStore, recoveries, reloads, tests,
          stylesInjected, overlayStyle, clicks,
          sample>>

\* The mutable state as one record, so that a handler is a function on it.
Cur ==
    [isEnabled |-> isEnabled, initPending |-> initPending,
     listeners |-> listeners, dclPending |-> dclPending,
     rescanTimers |-> rescanTimers,
     batchTimers |-> batchTimers,
     processingQueue |-> processingQueue,
     currentlyProcessing |-> currentlyProcessing,
     batch |-> batch, inFlight |-> inFlight, wait |-> wait, loadTimer |-> loadTimer,
     textElementsProcessed |-> textElementsProcessed,
     imageElementsProcessed |-> imageElementsProcessed,
     encryptedElements |-> encryptedElements,
     dom |-> dom, content |-> content, classes |-> classes,
     filter |-> filter, wrapper |-> wrapper, overlay |-> overlay,
     notice |-> notice, load |-> load, outcome |-> outcome,
     counters |-> counters, counterOps |-> counterOps,
     filterHistory |-> filterHistory, historyOps |-> historyOps,
     records |-> records,
     enqueued |-> enqueued, dispatched |-> dispatched,
     redacted |-> redacted, historyCalls |-> historyCalls,
     statsCalls |-> statsCalls,
     toggles |-> toggles, detaches |-> detaches,
     pageContent |-> pageContent, notifications |-> notifications,
     sessionStore |-> sessionStore, recoveries |-> recoveries,
     reloads |-> reloads, tests |-> tests,
     stylesInjected |-> stylesInjected, overlayStyle |-> overlayStyle,
     clicks |-> clicks]

Commit(s) ==
    /\ isEnabled' = s.isEnabled
    /\ initPending' = s.initPending
    /\ listeners' = s.listeners
    /\ dclPending' = s.dclPending
    /\ rescanTimers' = s.rescanTimers
    /\ batchTimers' = s.batchTimers
    /\ processingQueue' = s.processingQueue
    /\ currentlyProcessing' = s.currentlyProcessing
    /\ batch' = s.batch
    /\ inFlight' = s.inFlight
    /\ wait' = s.wait
    /\ loadTimer' = s.loadTimer
    /\ textElementsProcessed' = s.textElementsProcessed
    /\ imageElementsProcessed' = s.imageElementsProcessed
    /\ encryptedElements' = s.encryptedElements
    /\ dom' = s.dom
    /\ content' = s.content
    /\ classes' = s.classes
    /\ filter' = s.filter
    /\ wrapper' = s.wrapper
    /\ overlay' = s.overlay
    /\ notice' = s.notice
    /\ load' = s.load
    /\ outcome' = s.outcome
    /\ counters' = s.counters
    /\ counterOps' = s.counterOps
    /\ filterHistory' = s.filterHistory
    /\ historyOps' = s.historyOps
    /\ records' = s.records
    /\ enqueued' = s.enqueued
    /\ dispatched' = s.dispatched
    /\ redacted' = s.redacted
    /\ historyCalls' = s.historyCalls
    /\ statsCalls' = s.statsCalls
    /\ toggles' = s.toggles
    /\ detaches' = s.detaches
    /\ pageContent' = s.pageContent
    /\ notifications' = s.notifications
    /\ sessionStore' = s.sessionStore
    /\ recoveries' = s.recoveries
    /\ reloads' = s.reloads
    /\ tests' = s.tests
    /\ stylesInjected' = s.stylesInjected
    /\ overlayStyle' = s.overlayStyle
    /\ clicks' = s.clicks
    /\ UNCHANGED <<config, sample>>

(* ------------------------------ helpers ------------------------------- *)
NoVal == -1

Min(a, b) == IF a <= b THEN a ELSE b

Range(q) == {q[i] : i \in 1..Len(q)}

BatchSize == IF script = "content" THEN BATCH_SIZE ELSE BATCH_SIZE_NEW

\* Array.prototype.slice(0, n)
Slice(q, n) == SubSeq(q, 1, Min(n, Len(q)))

(* ------------------- storage: counters and history -------------------- *)
\* The storage key the background handler and content.js build from the
\* message type: type + 'Filtered'.
TypeKey(type) == IF type = "text" THEN "textFiltered" ELSE "imageFiltered"

\* The storage key image-processor.js computes.
StorageKey(type) == IF type = "image" THEN "imagesFiltered" ELSE "textFiltered"

\* A read-increment-write of one counter: the get is outstanding (val = NoVal)
\* until its callback computes the value the following set will write.
IncrementOp(key) == [key |-> key, val |-> NoVal]

\* chrome.runtime.sendMessage({action: 'updateStats', type, count: 1}) and the
\* background handler's get on type + 'Filtered'.
sendUpdateStats(s, type) ==
    [s EXCEPT !.counterOps = @ (+) SetToBag({IncrementOp(TypeKey(type))})]

\* updateStats of content.js
updateStatsContent(s, type) ==
    LET s1 == sendUpdateStats(s, type)
    IN [s1 EXCEPT !.counterOps = @ (+) SetToBag({IncrementOp(TypeKey(type))})]

\* updateStats of content-new.js
updateStatsContentNew(s, type) == sendUpdateStats(s, type)

\* updateStats of image-processor.js
updateStatsImageProcessor(s, type) ==
    LET statType == IF type = "image" THEN "image" ELSE "text"
        s1 == [s EXCEPT !.counterOps =
                   @ (+) SetToBag({IncrementOp(StorageKey(statType))})]
    IN sendUpdateStats(s1, statType)

\* The updateStats in effect: content.js has its own; content-new.js and
\* image-processor.js both declare one in the same scope and the script
\* loaded last wins.
updateStats(s, e, type) ==
    LET s1 == [s EXCEPT !.statsCalls[e] = @ + 1]
    IN IF script = "content" THEN updateStatsContent(s1, type)
       ELSE IF lastLoaded = "content-new.js" THEN updateStatsContentNew(s1, type)
       ELSE updateStatsImageProcessor(s1, type)

\* saveFilterHistory up to its storage get; the three copies are identical.
\* originalContent identifies the entry: the element whose content it is.
saveFilterHistory(s, e, type) ==
    LET historyItem == [type |-> type, originalContent |-> e]
    IN [s EXCEPT !.historyOps =
                     @ (+) SetToBag({[item |-> historyItem, phase |-> "get",
                                      history |-> <<>>]}),
                 !.historyCalls = [x \in DOMAIN @ |->
                                      IF x = e THEN @[x] + 1 ELSE @[x]]]

\* A ledger that pushes the new item at the tail instead of the head.
historyWithItemPushed(history, historyItem) ==
    Slice(history \o <<historyItem>>, HISTORY_CAP)

\* The callback of the get in saveFilterHistory: unshift, cut to the cap.
historyWithItem(history, historyItem) ==
    Slice(<<historyItem>> \o history, HISTORY_CAP)

(* --------------------------- DOM mutations ---------------------------- *)
\* dom[e]: "absent" (not created yet), "connected", "detached" (an ancestor was
\* removed from the document: the element keeps its parent) or "orphan" (the
\* element was removed from its parent: parentNode is null).
Connected(s, e) == s.dom[e] = "connected"

HasParent(s, e) == s.dom[e] \in {"connected", "detached"}

\* rescanTimers[i] holds the timeouts the debounce closure of the i-th
\* MutationObserver has set and that are neither cleared nor due yet, oldest
\* first; an entry is TRUE when no mutation was delivered since it was set.
Observing(s) == Len(s.rescanTimers) > 0

\* A debounce that sets a new timeout without clearing the pending one.
debouncedWithoutClear(pending) ==
    [j \in 1..Len(pending) |-> FALSE] \o <<TRUE>>

\* The function debounce returns, called once: clearTimeout(timeout) cancels
\* the timeout the closure set last, then a new one is set.
debounced(pending) ==
    LET kept == IF pending = <<>> THEN <<>>
                ELSE SubSeq(pending, 1, Len(pending) - 1)
    IN [j \in 1..Len(kept) |-> FALSE] \o <<TRUE>>

\* A batch of mutation records is delivered to every observer.
Mutated(s) ==
    [s EXCEPT !.rescanTimers = [i \in DOMAIN @ |-> debounced(@[i])]]

\* A childList mutation under document.body.
Observed(s, e) == IF Connected(s, e) THEN Mutated(s) ELSE s

\* The length-tiered placeholder written over a redacted text, and the marker.
redactText(s, e) ==
    [Observed(s, e) EXCEPT !.content[e] = PLACEHOLDER,
                           !.classes[e] = @ \cup {FILTERED_CLASS},
                           !.redacted[e] = @ + 1]

\* element.textContent = text
setTextContent(s, e, text) == [Observed(s, e) EXCEPT !.content[e] = text]

\* Map.prototype.set
MapSet(m, k, v) == [x \in DOMAIN m \cup {k} |-> IF x = k THEN v ELSE m[x]]

EmptyMap == [x \in {} |-> ""]

\* sessionStorage.getItem on a key that was never set.
NoItem == [set |-> FALSE, textElements |-> {}, imageElements |-> {}]

\* What the click handlers set on an overlay: the class socioio-subtle
\* (content.js) or the inline opacity and pointer-events (image-processor.js).
\* A new overlay has none of them.
NoStyle == [subtle |-> FALSE, opacity |-> "", pointerEvents |-> ""]

\* A blur that creates its wrapper and its overlay without looking for the
\* ones already there.
blurImageDuplicating(s, e) ==
    [Observed(s, e) EXCEPT !.wrapper[e] = @ + 1, !.filter[e] = "blur(20px)",
                           !.overlay[e] = @ + 1, !.redacted[e] = @ + 1]

\* The blur transformation of both image paths: the wrapper is created
\* unless element.closest finds one, the filter is set, the overlay is
\* created unless wrapper.querySelector finds one.  wrapper[e] and overlay[e]
\* count the socioio-image-container ancestors of e and the overlays in them.
blurImage(s, e) ==
    [Observed(s, e) EXCEPT !.wrapper[e] = IF @ = 0 THEN 1 ELSE @,
                           !.filter[e] = "blur(20px)",
                           !.overlay[e] = IF @ = 0 THEN 1 ELSE @,
                           !.overlayStyle[e] =
                               IF s.overlay[e] = 0 THEN NoStyle ELSE @,
                           !.clicks[e] = IF s.overlay[e] = 0 THEN 0 ELSE @,
                           !.redacted[e] = @ + 1]

\* element.parentNode.replaceChild(blockNotice, element): the notice takes
\* the element's place and the element is left without a parent.
blockImage(s, e) ==
    [Observed(s, e) EXCEPT !.dom[e] = "orphan",
                           !.notice[e] = IF Connected(s, e) THEN "connected"
                                         ELSE "detached",
                           !.redacted[e] = @ + 1]

(* ------------------------ promises of a batch ------------------------- *)
\* resolve(result) of the promise processElement made for e; a second
\* resolve of the same promise has no effect.
Resolve(s, e, status) ==
    IF e \in s.inFlight
    THEN [s EXCEPT !.outcome[e] = status, !.inFlight = @ \ {e}]
    ELSE s

\* Promise.all in the place of Promise.allSettled: the first rejection
\* settles the batch.
AllOrFirstRejected(s) ==
    \/ s.inFlight = {}
    \/ \E e \in Range(s.batch) : s.outcome[e] = "error"

\* Promise.allSettled(promises): every promise of the batch has settled.
AllSettled(s) == s.inFlight = {}

\* The then-callback of Promise.allSettled in processNextBatch, run as a
\* microtask of the task that settles the last promise.
BatchSettled(s) ==
    IF s.currentlyProcessing /\ AllSettled(s)
    THEN [s EXCEPT !.currentlyProcessing = FALSE,
                   !.batch = <<>>,
                   !.batchTimers = IF Len(s.processingQueue) > 0
                                   THEN @ + 1 ELSE @]
    ELSE s

(* ------------------------- processTextElement ------------------------- *)
\* The local heuristic: a listed word as a whole word, text of at most 200
\* characters.
isProfanity(text) == text = "profane"

\* processTextElement up to its first await: every return before the fetch.
processTextElementStart(s, e) ==
    IF ~Connected(s, e) THEN Resolve(s, e, "skipped")
    ELSE IF s.content[e] = "" THEN Resolve(s, e, "skipped")
    ELSE IF isProfanity(s.content[e])
    THEN Resolve(updateStats(saveFilterHistory(redactText(s, e), e, "text"),
                             e, "text"),
                 e, "filtered")
    ELSE [s EXCEPT !.wait[e] = "fetch"]

\* content.js after the fetch: anything but "keep" replaces the content.
applyTextReplyContent(s, e, data) ==
    IF data.action # "keep"
    THEN LET s1 == IF data.action = "encrypt"
                   THEN [s EXCEPT !.encryptedElements =
                                      MapSet(@, e, s.content[e]),
                                  !.classes[e] = @ \cup {ENCRYPTED_CLASS}]
                   ELSE s
             s2 == [setTextContent(s1, e, data.processed_text)
                       EXCEPT !.redacted[e] =
                                  IF data.action \in {"encrypt", "remove"}
                                  THEN @ + 1 ELSE @]
         IN [st |-> updateStats(s2, e, "text"), r |-> "filtered"]
    ELSE [st |-> s, r |-> "kept"]

\* content-new.js after the fetch: anything but "allow" counts as filtered.
applyTextReplyContentNew(s, e, data) ==
    IF data.action # "allow"
    THEN LET s1 == IF data.action = "remove"
                   THEN saveFilterHistory(redactText(s, e), e, "text")
                   ELSE IF data.action = "encrypt"
                   THEN saveFilterHistory(
                            [setTextContent(s, e, data.processed_text)
                                EXCEPT !.classes[e] = @ \cup {ENCRYPTED_CLASS},
                                       !.redacted[e] = @ + 1],
                            e, "text")
                   ELSE s
         IN [st |-> updateStats(s1, e, "text"), r |-> "filtered"]
    ELSE [st |-> s, r |-> "kept"]

applyTextReply(s, e, data) ==
    IF script = "content" THEN applyTextReplyContent(s, e, data)
    ELSE applyTextReplyContentNew(s, e, data)

\* A processTextElement whose catch removes the processed mark, so that the
\* next scan queues the element again.
processTextElementReplyRetrying(s, e, data) ==
    LET s0 == [s EXCEPT !.wait[e] = "none"]
    IN IF data.kind # "ok"
       THEN Resolve([s0 EXCEPT !.classes[e] = @ \ {EXCLUSION_CLASS},
                               !.textElementsProcessed = @ \ {e}],
                    e, "error")
       ELSE LET res == applyTextReply(s0, e, data)
            IN Resolve(res.st, e, res.r)

\* processTextElement from the fetch's outcome to its return.
processTextElementReply(s, e, data) ==
    LET s0 == [s EXCEPT !.wait[e] = "none"]
    IN IF data.kind # "ok" THEN Resolve(s0, e, "error")
       ELSE LET res == applyTextReply(s0, e, data)
            IN Resolve(res.st, e, res.r)

(* ------------------------ processImageElement ------------------------- *)
\* content.js, up to the fetch.
processImageElementStart(s, e) ==
    IF ~Connected(s, e) THEN Resolve(s, e, "skipped")
    ELSE IF s.content[e] = "" THEN Resolve(s, e, "skipped")
    ELSE [s EXCEPT !.wait[e] = "fetch"]

\* content.js: wrap, blur and overlay; the history entry is written only
\* when the overlay is created.  throws is TRUE when insertBefore is called
\* on a null parentNode, before anything was changed.
blurWithHistory(s, e) ==
    IF s.wrapper[e] = 0 /\ ~HasParent(s, e)
    THEN [st |-> s, throws |-> TRUE]
    ELSE LET s1 == blurImage(s, e)
         IN [st |-> IF s.overlay[e] = 0 THEN saveFilterHistory(s1, e, "image")
                    ELSE s1,
             throws |-> FALSE]

\* content.js: the catch of the fetch try block, also reached by a TypeError
\* thrown while the reply is applied.  A throw in here reaches the outer catch.
imageFetchCatch(s, e) ==
    IF testPage
    THEN LET b == blurWithHistory(s, e)
         IN IF b.throws THEN [st |-> s, r |-> "error"]
            ELSE [st |-> updateStats(b.st, e, "image"), r |-> "filtered"]
    ELSE [st |-> s, r |-> "error"]

\* content.js after the fetch: anything but "allow" counts as filtered.
applyImageReply(s, e, data) ==
    IF data.action # "allow"
    THEN IF data.action = "block"
         THEN IF ~HasParent(s, e) THEN imageFetchCatch(s, e)
              ELSE [st |-> updateStats(
                               saveFilterHistory(blockImage(s, e), e, "image"),
                               e, "image"),
                    r |-> "filtered"]
         ELSE IF data.action = "blur"
         THEN LET b == blurWithHistory(s, e)
              IN IF b.throws THEN imageFetchCatch(s, e)
                 ELSE [st |-> updateStats(b.st, e, "image"), r |-> "filtered"]
         ELSE [st |-> updateStats(s, e, "image"), r |-> "filtered"]
    ELSE [st |-> s, r |-> "kept"]

\* content.js: processImageElement from the fetch's outcome to its return.
processImageElementReply(s, e, data) ==
    LET s0 == [s EXCEPT !.wait[e] = "none"]
        res == IF data.kind = "neterr" THEN imageFetchCatch(s0, e)
               ELSE IF data.kind = "dataerr" THEN [st |-> s0, r |-> "error"]
               ELSE applyImageReply(s0, e, data)
    IN Resolve(res.st, e, res.r)

\* image-processor.js: the filtering decision.  sampled stands for
\* Math.random() < 0.01 on an image that is neither small nor from an
\* allow-listed host; a broken image has natural dimensions 0.
shouldFilter(s, e, sampled) ==
    \/ s.content[e] = "xxx.jpg"
    \/ (sampled /\ s.load[e] = "complete")

\* image-processor.js: processImageElement, synchronous.
processImageElementLocal(s, e, sampled) ==
    IF ~Connected(s, e) THEN [st |-> s, r |-> "skipped"]
    ELSE IF s.content[e] = "" THEN [st |-> s, r |-> "skipped"]
    ELSE IF ~shouldFilter(s, e, sampled) THEN [st |-> s, r |-> "kept"]
    ELSE LET s1 == blurImage(s, e)
             s2 == saveFilterHistory(s1, e, "image")
             s3 == updateStats(s2, e, "image")
             s4 == [s3 EXCEPT !.counterOps =
                        @ (+) SetToBag({IncrementOp("imagesFiltered")})]
         IN [st |-> s4, r |-> "filtered"]

(* --------------------------- processElement --------------------------- *)
\* processElement without the timeout on the load of an image.
processElementWithoutTimeout(s, e, rnd) ==
    IF IsText(e) THEN processTextElementStart(s, e)
    ELSE IF script = "content" THEN processImageElementStart(s, e)
    ELSE IF s.load[e] # "loading"
    THEN LET res == processImageElementLocal(s, e, rnd[e])
         IN Resolve(res.st, e, res.r)
    ELSE [s EXCEPT !.wait[e] = "load"]

processElement(s, e, rnd) ==
    IF IsText(e) THEN processTextElementStart(s, e)
    ELSE IF script = "content" THEN processImageElementStart(s, e)
    ELSE IF s.load[e] # "loading"
    THEN LET res == processImageElementLocal(s, e, rnd[e])
         IN Resolve(res.st, e, res.r)
    ELSE [s EXCEPT !.wait[e] = "load", !.loadTimer[e] = TRUE]

RECURSIVE mapProcessElement(_, _, _)
\* batch.map(processElement): the synchronous part of every item, in order.
mapProcessElement(s, items, rnd) ==
    IF items = <<>> THEN s
    ELSE mapProcessElement(processElement(s, Head(items), rnd), Tail(items), rnd)

\* A scheduler that does not look at currentlyProcessing.
processNextBatchReentrant(s, rnd) ==
    IF Len(s.processingQueue) = 0 \/ ~s.isEnabled
    THEN s
    ELSE LET n == Min(BatchSize, Len(s.processingQueue))
             items == SubSeq(s.processingQueue, 1, n)
             s1 == [s EXCEPT !.currentlyProcessing = TRUE,
                             !.processingQueue =
                                 SubSeq(@, n + 1, Len(@)),
                             !.batch = items,
                             !.inFlight = @ \cup Range(items),
                             !.dispatched = [e \in Elems |->
                                 IF e \in Range(items) THEN @[e] + 1
                                 ELSE @[e]]]
         IN BatchSettled(mapProcessElement(s1, items, rnd))

\* A scheduler that takes the whole queue as one batch.
processNextBatchWhole(s, rnd) ==
    IF s.currentlyProcessing \/ Len(s.processingQueue) = 0 \/ ~s.isEnabled
    THEN s
    ELSE LET items == s.processingQueue
             s1 == [s EXCEPT !.currentlyProcessing = TRUE,
                             !.processingQueue = <<>>,
                             !.batch = items,
                             !.inFlight = Range(items),
                             !.dispatched = [e \in Elems |->
                                 IF e \in Range(items) THEN @[e] + 1
                                 ELSE @[e]]]
         IN BatchSettled(mapProcessElement(s1, items, rnd))

\* A scheduler that copies the head of the queue (slice) and leaves it there.
processNextBatchKeepingQueue(s, rnd) ==
    IF s.currentlyProcessing \/ Len(s.processingQueue) = 0 \/ ~s.isEnabled
    THEN s
    ELSE LET n == Min(BatchSize, Len(s.processingQueue))
             items == SubSeq(s.processingQueue, 1, n)
             s1 == [s EXCEPT !.currentlyProcessing = TRUE,
                             !.batch = items,
                             !.inFlight = Range(items),
                             !.dispatched = [e \in Elems |->
                                 IF e \in Range(items) THEN @[e] + 1
                                 ELSE @[e]]]
         IN BatchSettled(mapProcessElement(s1, items, rnd))

(* -------------------------- processNextBatch -------------------------- *)
processNextBatch(s, rnd) ==
    IF s.currentlyProcessing \/ Len(s.processingQueue) = 0 \/ ~s.isEnabled
    THEN s
    ELSE LET n == Min(BatchSize, Len(s.processingQueue))
             items == SubSeq(s.processingQueue, 1, n)
             s1 == [s EXCEPT !.currentlyProcessing = TRUE,
                             !.processingQueue =
                                 SubSeq(@, n + 1, Len(@)),
                             !.batch = items,
                             !.inFlight = Range(items),
                             !.dispatched = [e \in Elems |->
                                 IF e \in Range(items) THEN @[e] + 1
                                 ELSE @[e]]]
         IN BatchSettled(mapProcessElement(s1, items, rnd))

(* ---------------------- scanContentForModeration ---------------------- *)
RECURSIVE DocumentOrder(_)
\* querySelectorAll returns its matches in document order, here by id.
DocumentOrder(S) ==
    IF S = {} THEN <<>>
    ELSE LET m == CHOOSE x \in S : \A y \in S : x <= y
         IN <<m>> \o DocumentOrder(S \ {m})

\* The scan's selector is the list followed by ':not(.socioio-processed)',
\* and the suffix binds to the last selector of the list only: to img in
\* IMAGE_SELECTORS, and in TEXT_SELECTORS to leaf anchors (content.js) or code
\* (content-new.js).  The text elements of the model are paragraphs.
ClassFiltered(e) == ~IsText(e)

Unprocessed(s, kind) ==
    DocumentOrder({e \in kind :
                      /\ Connected(s, e)
                      /\ ClassFiltered(e) => EXCLUSION_CLASS \notin s.classes[e]})

\* A scan that queues the element without marking it: no class, no set entry.
scanElementUnmarked(s, e) ==
    IF s.content[e] = "" THEN s
    ELSE [s EXCEPT !.processingQueue = Append(@, e),
                   !.enqueued[e] = @ + 1]

\* An iteration that does not skip an element without text or source.
scanElementWithoutEmptyCheck(s, e) ==
    IF IsText(e) /\ e \in s.textElementsProcessed THEN s
    ELSE IF ~IsText(e) /\ e \in s.imageElementsProcessed THEN s
    ELSE [s EXCEPT !.processingQueue = Append(@, e),
                   !.textElementsProcessed =
                       IF IsText(e) THEN @ \cup {e} ELSE @,
                   !.imageElementsProcessed =
                       IF IsText(e) THEN @ ELSE @ \cup {e},
                   !.classes[e] = @ \cup {EXCLUSION_CLASS},
                   !.enqueued[e] = @ + 1]

\* One iteration of the text loop or of the image loop.
scanElement(s, e) ==
    IF s.content[e] = "" THEN s
    ELSE IF IsText(e) /\ e \in s.textElementsProcessed THEN s
    ELSE IF ~IsText(e) /\ e \in s.imageElementsProcessed THEN s
    ELSE [s EXCEPT !.processingQueue = Append(@, e),
                   !.textElementsProcessed =
                       IF IsText(e) THEN @ \cup {e} ELSE @,
                   !.imageElementsProcessed =
                       IF IsText(e) THEN @ ELSE @ \cup {e},
                   !.classes[e] = @ \cup {EXCLUSION_CLASS},
                   !.enqueued[e] = @ + 1]

RECURSIVE scanLoop(_, _)
scanLoop(s, elements) ==
    IF elements = <<>> THEN s
    ELSE scanLoop(scanElement(s, Head(elements)), Tail(elements))

\* content.js: uniqueSelectorFor walks from the element up to the document
\* and reads parentNode.childNodes of every element on the way, so it throws
\* on an element that is no longer in the document.  The selector it builds
\* for an element in the document stands for the element's place in the page.
SelectorThrows(s, e) == ~Connected(s, e)

\* storeProcessedElements: content.js writes the selectors of the processed
\* text elements and the sources of the processed images to sessionStorage,
\* unless building a selector throws; content-new.js has an empty body.
storeProcessedElements(s) ==
    IF script # "content" THEN s
    ELSE IF \E e \in s.textElementsProcessed : SelectorThrows(s, e) THEN s
    ELSE [s EXCEPT !.sessionStore =
                       [set |-> TRUE,
                        textElements |-> s.textElementsProcessed,
                        imageElements |->
                            {s.content[e] : e \in s.imageElementsProcessed}]]

\* A scan that does not look at isEnabled.
scanContentForModerationUnguarded(s, rnd) ==
    LET s1 == scanLoop(s, Unprocessed(s, TextElems))
        s2 == scanLoop(s1, Unprocessed(s1, ImageElems))
    IN storeProcessedElements(
           IF Len(s2.processingQueue) > 0 THEN processNextBatch(s2, rnd)
           ELSE s2)

scanContentForModeration(s, rnd) ==
    IF ~s.isEnabled THEN s
    ELSE LET s1 == scanLoop(s, Unprocessed(s, TextElems))
             s2 == scanLoop(s1, Unprocessed(s1, ImageElems))
         IN storeProcessedElements(
                IF Len(s2.processingQueue) > 0 THEN processNextBatch(s2, rnd)
                ELSE s2)

(* ----------------------- restoreOriginalContent ----------------------- *)
\* content.js: every entry of encryptedElements whose element is connected
\* gets its text back; the map is cleared.
restoreEncrypted(s) ==
    LET keys == {e \in DOMAIN s.encryptedElements : Connected(s, e)}
        s0 == IF keys # {} THEN Mutated(s) ELSE s
    IN [s0 EXCEPT !.content = [e \in Elems |->
                                 IF e \in keys THEN s.encryptedElements[e]
                                 ELSE s.content[e]],
                 !.classes = [e \in Elems |->
                                 IF e \in keys THEN s.classes[e] \ {ENCRYPTED_CLASS}
                                 ELSE s.classes[e]],
                  !.encryptedElements = EmptyMap]

\* A removal of the block notices that puts the image back in the place of
\* its notice.
removeArtifactsReinserting(s) ==
    [s EXCEPT !.dom = [e \in Elems |->
                          IF s.notice[e] = "connected" THEN "connected"
                          ELSE s.dom[e]],
              !.notice = [e \in Elems |->
                             IF s.notice[e] = "connected" THEN "none"
                             ELSE s.notice[e]]]

\* Both scripts: block notices and overlays found in the document are
\* removed, and the filter of every image in the document whose style
\* mentions blur is set to none.
removeArtifacts(s) ==
    LET touched == \E e \in Elems : (s.notice[e] = "connected")
                                     \/ (s.overlay[e] > 0 /\ Connected(s, e))
        s0 == IF touched THEN Mutated(s) ELSE s
    IN [s0 EXCEPT !.notice = [e \in Elems |->
                                IF s.notice[e] = "connected" THEN "none"
                                ELSE s.notice[e]],
                 !.overlay = [e \in Elems |->
                                 IF Connected(s, e) THEN 0 ELSE s.overlay[e]],
                 !.overlayStyle = [e \in Elems |->
                                 IF Connected(s, e) THEN NoStyle
                                 ELSE s.overlayStyle[e]],
                 !.clicks = [e \in Elems |->
                                 IF Connected(s, e) THEN 0 ELSE s.clicks[e]],
                 !.filter = [e \in Elems |->
                                IF Connected(s, e) /\ s.filter[e] = "blur(20px)"
                                THEN "none" ELSE s.filter[e]]]

\* A restore that also empties the stored history.
restoreOriginalContentClearingHistory(s) ==
    [removeArtifacts(IF script = "content" THEN restoreEncrypted(s) ELSE s)
        EXCEPT !.filterHistory = <<>>]

restoreOriginalContent(s) ==
    IF script = "content" THEN removeArtifacts(restoreEncrypted(s))
    ELSE removeArtifacts(s)

(* --------------------------- overlay click ---------------------------- *)
\* The overlay of e does not show: its inline opacity is 0, or it carries
\* socioio-subtle and the style sheet with that rule is in the document.
OverlayHidden(s, e) ==
    \/ s.overlayStyle[e].opacity = "0"
    \/ s.overlayStyle[e].subtle /\ s.stylesInjected

\* The click listener of the overlay content.js creates.
overlayClickContent(s, e) ==
    IF s.filter[e] = "blur(20px)"
    THEN [s EXCEPT !.filter[e] = "none", !.overlayStyle[e].subtle = TRUE]
    ELSE [s EXCEPT !.filter[e] = "blur(20px)",
                   !.overlayStyle[e].subtle = FALSE]

\* The click listener of the overlay image-processor.js creates.
overlayClickImageProcessor(s, e) ==
    IF s.filter[e] = "blur(20px)"
    THEN [s EXCEPT !.filter[e] = "none", !.overlayStyle[e].opacity = "0",
                   !.overlayStyle[e].pointerEvents = "none"]
    ELSE [s EXCEPT !.filter[e] = "blur(20px)",
                   !.overlayStyle[e].opacity = "1",
                   !.overlayStyle[e].pointerEvents = "auto"]

\* A click of the user where the overlay of e lies.  With pointer-events
\* none the overlay is no target of the click, which goes to the image under
\* it; no listener of the scripts is on the image.
clickOverlay(s, e) ==
    IF s.overlayStyle[e].pointerEvents = "none" THEN s
    ELSE IF script = "content" THEN overlayClickContent(s, e)
    ELSE overlayClickImageProcessor(s, e)

(* ------------------------ applyRecoveredContent ----------------------- *)
\* Texts made of asterisks only, which content-new.js takes for the mark of
\* an older redaction.  No text of the model is one.
isAsterisks(text) == text = "********"

\* document.body.appendChild(notification)
showNotification(s, kind, text) ==
    [Mutated(s) EXCEPT
        !.notifications = @ (+) SetToBag({[kind |-> kind, text |-> text]})]

\* document.querySelectorAll('.socioio-encrypted').forEach: every encrypted
\* element of the document gets the recovered text and loses the class.
recoverEncrypted(s, recoveredText) ==
    LET found == {e \in TextElems : Connected(s, e)
                                     /\ ENCRYPTED_CLASS \in s.classes[e]}
        s0 == IF found # {} THEN Mutated(s) ELSE s
    IN [s0 EXCEPT !.content = [e \in Elems |->
                                 IF e \in found THEN recoveredText
                                 ELSE s.content[e]],
                 !.classes = [e \in Elems |->
                                 IF e \in found THEN s.classes[e] \ {ENCRYPTED_CLASS}
                                 ELSE s.classes[e]]]

\* content.js
applyRecoveredContentContent(s, recoveredText) ==
    recoverEncrypted(s, recoveredText)

\* content-new.js: the first element found by class, by asterisks or by the
\* placeholder message is restored; when none is found the text is shown in a
\* notification and nothing else is done.
applyRecoveredContentContentNew(s, recoveredText) ==
    LET modernFilteredElements ==
            DocumentOrder({e \in TextElems : Connected(s, e)
                              /\ FILTERED_CLASS \in s.classes[e]})
        legacyFilteredElements ==
            DocumentOrder({e \in TextElems : Connected(s, e)
                              /\ isAsterisks(s.content[e])})
        messageFilteredElements ==
            DocumentOrder({e \in TextElems : Connected(s, e)
                              /\ s.content[e] = PLACEHOLDER})
        allFilteredElements ==
            modernFilteredElements \o legacyFilteredElements
                \o messageFilteredElements
    IN IF Len(allFilteredElements) = 0
       THEN showNotification(s, "recovered", recoveredText)
       ELSE LET elementToRestore == allFilteredElements[1]
                s1 == [setTextContent(s, elementToRestore, recoveredText)
                          EXCEPT !.classes[elementToRestore] =
                                     @ \ {FILTERED_CLASS}]
            IN showNotification(recoverEncrypted(s1, recoveredText),
                                "restored", "")

applyRecoveredContent(s, recoveredText) ==
    IF script = "content" THEN applyRecoveredContentContent(s, recoveredText)
    ELSE applyRecoveredContentContentNew(s, recoveredText)

(* ------------------------------ page load ----------------------------- *)
\* content.js: loadProcessedElements, called by initialize.  A stored item
\* older than an hour is removed; otherwise the element each stored selector
\* finds and every image with a stored source get the class, and nothing is
\* added to the processed sets.  Image sources are absolute URLs, so the
\* attribute selector built from element.src finds the image again.
loadProcessedElements(s, expired) ==
    IF script # "content" \/ ~s.sessionStore.set THEN s
    ELSE IF expired THEN [s EXCEPT !.sessionStore = NoItem]
    ELSE [s EXCEPT !.classes = [e \in Elems |->
              IF /\ Connected(s, e)
                 /\ \/ IsText(e) /\ e \in s.sessionStore.textElements
                    \/ ~IsText(e) /\ s.content[e] \in s.sessionStore.imageElements
              THEN s.classes[e] \cup {EXCLUSION_CLASS}
              ELSE s.classes[e]]]

\* initialize: content.js loads the stored marks first; both scripts ask the
\* storage for 'enabled' and register a message listener.
initialize(s, expired) ==
    [loadProcessedElements(s, expired) EXCEPT !.initPending = @ + 1,
                                              !.listeners = @ + 1]

\* The document of a reloaded page and the globals of a content script that
\* has just been loaded into it: the page holds its elements with the content
\* the page gave them; sessionStorage and the extension's storage are kept.
reloaded(s) ==
    [s EXCEPT !.isEnabled = TRUE, !.initPending = 0, !.listeners = 0,
              !.dclPending = FALSE,
              !.rescanTimers = <<>>, !.batchTimers = 0,
              !.processingQueue = <<>>, !.currentlyProcessing = FALSE,
              !.batch = <<>>, !.inFlight = {},
              !.wait = [e \in Elems |-> "none"],
              !.loadTimer = [e \in Elems |-> FALSE],
              !.textElementsProcessed = {}, !.imageElementsProcessed = {},
              !.encryptedElements = EmptyMap,
              !.dom = [e \in Elems |-> IF s.dom[e] = "absent" THEN "absent"
                                       ELSE "connected"],
              !.content = s.pageContent,
              !.classes = [e \in Elems |-> {}],
              !.filter = [e \in Elems |-> ""],
              !.wrapper = [e \in Elems |-> 0],
              !.overlay = [e \in Elems |-> 0],
              !.stylesInjected = FALSE,
              !.overlayStyle = [e \in Elems |-> NoStyle],
              !.clicks = [e \in Elems |-> 0],
              !.notice = [e \in Elems |-> "none"],
              !.load = [e \in Elems |-> "complete"],
              !.outcome = [e \in Elems |-> "none"],
              !.notifications = EmptyBag,
              !.enqueued = [e \in Elems |-> 0],
              !.dispatched = [e \in Elems |-> 0],
              !.redacted = [e \in Elems |-> 0],
              !.historyCalls = [e \in Elems |-> 0],
              !.statsCalls = [e \in Elems |-> 0]]

(* ------------------------- testImageFiltration ------------------------ *)
RECURSIVE forEachProcessImageElement(_, _, _)
\* images.forEach(img => processImageElement(img)) with the function of
\* image-processor.js; the results are logged and dropped.
forEachProcessImageElement(s, images, rnd) ==
    IF images = <<>> THEN s
    ELSE forEachProcessImageElement(
             processImageElementLocal(s, Head(images), rnd[Head(images)]).st,
             Tail(images), rnd)

(* ------------------------------- inputs ------------------------------- *)
\* One draw of Math.random() < 0.01 per image of a batch.
Rnd == [ImageElems -> BOOLEAN]

\* What a fetch can come back with: a network or parse failure, a body with
\* an error field, or a body with an action.  processed_text comes with
\* encrypt and remove and may come with an action the scripts do not know.
Replies ==
    {[kind |-> k, action |-> "", processed_text |-> ""] : k \in {"neterr", "dataerr"}}
    \cup {[kind |-> "ok", action |-> a, processed_text |-> PROCESSED_TEXT] :
             a \in ReplyActions \ {"keep", "allow"}}
    \cup {[kind |-> "ok", action |-> a, processed_text |-> ""] :
             a \in ReplyActions \ {"encrypt", "remove"}}

(* --------- processTextElement on a text, character by character -------- *)
\* A text is a sequence of characters, each a string of its own: an ASCII
\* character stands for itself and "U+00E9" for the letter e with an acute
\* accent.  A literal of the source is one piece of the sequence.
MEDIUM_MARKER == "... [Content filtered by Socio.io] ..."
LONG_NOTICE == "[Additional content filtered by Socio.io - Click the indicator to view]"
ELLIPSIS == "..."

Chars(str) ==
    CASE str = "fuck" -> <<"f", "u", "c", "k">>
      [] str = "FUCK" -> <<"F", "U", "C", "K">>
      [] str = "fucker" -> <<"f", "u", "c", "k", "e", "r">>
      [] str = "fucking" -> <<"f", "u", "c", "k", "i", "n", "g">>
      [] str = "duck" -> <<"d", "u", "c", "k">>

profanityWords == {Chars("fuck"), Chars("fucker"), Chars("fucking")}

\* String.prototype.toLowerCase on the characters of the model.
toLowerCase(text) ==
    [i \in DOMAIN text |->
        CASE text[i] = "F" -> "f" [] text[i] = "U" -> "u"
          [] text[i] = "C" -> "c" [] text[i] = "K" -> "k"
          [] text[i] = "X" -> "x" [] text[i] = "S" -> "s"
          [] text[i] = "E" -> "e"
          [] OTHER -> text[i]]

\* String.prototype.trim.
trim(text) ==
    LET inked == {i \in DOMAIN text : text[i] # " "}
    IN IF inked = {} THEN <<>>
       ELSE SubSeq(text, CHOOSE i \in inked : \A j \in inked : i <= j,
                         CHOOSE i \in inked : \A j \in inked : i >= j)

\* String.prototype.substring(from, to), for 0 <= from <= to.
substring(text, from, to) ==
    SubSeq(text, from + 1, IF to < Len(text) THEN to ELSE Len(text))

\* text.split('.')[0].
firstSentence(text) ==
    LET dots == {i \in DOMAIN text : text[i] = "."}
    IN IF dots = {} THEN text
       ELSE SubSeq(text, 1, (CHOOSE i \in dots : \A j \in dots : i <= j) - 1)

\* The class \w of a RegExp without the u flag: ASCII letters, digits and
\* the underscore.
RegExpWordChar(c) ==
    c \in {"a", "c", "d", "e", "f", "g", "i", "k", "n", "r", "s", "u",
           "F", "U", "C", "K", "_"}

\* new RegExp(`\\b${word}\\b`, 'i').test(text), for a word of letters: the
\* word occurs with no \w character next to it on either side.
regexTest(word, text) ==
    \E i \in 1..(Len(text) - Len(word) + 1) :
        /\ toLowerCase(SubSeq(text, i, i + Len(word) - 1)) = word
        /\ i = 1 \/ ~RegExpWordChar(text[i - 1])
        /\ i + Len(word) > Len(text) \/ ~RegExpWordChar(text[i + Len(word)])

\* isProfanity as the source computes it, the length limit included.
localDetection(text) ==
    /\ \E word \in profanityWords : regexTest(word, toLowerCase(text))
    /\ ~(Len(text) > 200)

\* The three tiers with the boundary of the first one moved by one.
filteredTextShortTierInclusive(text) ==
    IF Len(text) <= 30 THEN <<PLACEHOLDER>>
    ELSE IF Len(text) < 100
    THEN substring(text, 0, 10) \o <<MEDIUM_MARKER>>
             \o substring(text, Len(text) - 10, Len(text))
    ELSE LET sentence == firstSentence(text)
         IN (IF Len(sentence) > 50
             THEN substring(sentence, 0, 50) \o <<ELLIPSIS>>
             ELSE sentence) \o <<LONG_NOTICE>>

\* The placeholder that replaces a locally detected text.
filteredText(text) ==
    IF Len(text) < 30 THEN <<PLACEHOLDER>>
    ELSE IF Len(text) < 100
    THEN substring(text, 0, 10) \o <<MEDIUM_MARKER>>
             \o substring(text, Len(text) - 10, Len(text))
    ELSE LET sentence == firstSentence(text)
         IN (IF Len(sentence) > 50
             THEN substring(sentence, 0, 50) \o <<ELLIPSIS>>
             ELSE sentence) \o <<LONG_NOTICE>>

\* processTextElement on a connected element up to its first await, on the
\* element alone: its textContent and classes, the calls of saveFilterHistory
\* and updateStats('text'), and the analyze_text requests sent.
processTextElementLocal(el) ==
    LET text == trim(el.textContent)
    IN IF text = <<>> THEN [el EXCEPT !.status = "skipped"]
       ELSE IF localDetection(text)
       THEN [el EXCEPT !.textContent = filteredText(text),
                       !.classes = @ \cup {FILTERED_CLASS},
                       !.history = Append(@, [type |-> "text", content |-> text]),
                       !.stats = @ + 1,
                       !.status = "filtered"]
       ELSE [el EXCEPT !.requests = @ + 1, !.status = "fetch"]

\* An element before it is processed.
Element(text) ==
    [original |-> text, textContent |-> text, classes |-> {}, history |-> <<>>,
     stats |-> 0, requests |-> 0, status |-> "queued"]

NoSample == Element(<<>>)

\* The texts tried: a token at the start or at the end of a run of a's of
\* the given trimmed length, with a character between the two, possibly a
\* full stop somewhere in the run, possibly spaces around the whole.
SampleTokens == {Chars("fuck"), Chars("FUCK"), Chars("fucker"),
                 Chars("fucking"), Chars("duck")}
SampleLengths == {0, 29, 30, 40, 99, 100, 200, 201}
SampleNeighbours == {" ", "-", "a", "_", "U+00E9"}
SampleStops == {0, 5, 60}

SampleText(token, length, atStart, neighbour, stop, padded) ==
    LET run == [i \in 1..(length - Len(token) - 1) |->
                   IF i = stop THEN "." ELSE "a"]
        body == IF length <= Len(token) + 1 THEN token
                ELSE IF atStart THEN token \o <<neighbour>> \o run
                ELSE run \o <<neighbour>> \o token
    IN IF padded THEN <<" ">> \o body \o <<" ", " ">> ELSE body

SampleTexts ==
    {<<>>, <<" ">>} \cup
    {SampleText(token, length, atStart, neighbour, stop, padded) :
        token \in SampleTokens, length \in SampleLengths,
        atStart \in BOOLEAN, neighbour \in SampleNeighbours,
        stop \in SampleStops, padded \in BOOLEAN}

(* --------------------- the image decision, on URLs -------------------- *)
\* image-processor.js decides on the characters of element.src and on the
\* natural size of the image.  An image here is a record of what the function
\* reads and writes; its src is the sequence of the characters of the URL.
explicitKeywords ==
    {<<"e", "x", "p", "l", "i", "c", "i", "t">>,
     <<"n", "s", "f", "w">>,
     <<"a", "d", "u", "l", "t">>,
     <<"x", "x", "x">>,
     <<"p", "o", "r", "n">>,
     <<"s", "e", "x">>}

safeImageSources ==
    {<<"w", "i", "k", "i", "p", "e", "d", "i", "a", ".", "o", "r", "g">>,
     <<"w", "i", "k", "i", "m", "e", "d", "i", "a", ".", "o", "r", "g">>,
     <<"g", "i", "t", "h", "u", "b", ".", "c", "o", "m">>,
     <<"g", "o", "o", "g", "l", "e", "u", "s", "e", "r", "c", "o", "n", "t", "e", "n", "t", ".", "c", "o", "m", "/", "a", "/">>,
     <<"g", "r", "a", "v", "a", "t", "a", "r", ".", "c", "o", "m">>,
     <<"y", "t", "i", "m", "g", ".", "c", "o", "m">>,
     <<"t", "w", "i", "m", "g", ".", "c", "o", "m">>,
     <<"f", "b", "c", "d", "n", ".", "n", "e", "t">>,
     <<"l", "i", "n", "k", "e", "d", "i", "n", ".", "c", "o", "m", "/", "m", "e", "d", "i", "a">>}

\* String.prototype.includes.
includes(text, word) ==
    \E i \in 1..(Len(text) - Len(word) + 1) :
        SubSeq(text, i, i + Len(word) - 1) = word

containsExplicitKeyword(lowerSrc) ==
    \E keyword \in explicitKeywords : includes(lowerSrc, keyword)

isVerySmallImage(img) == img.naturalWidth < 50 \/ img.naturalHeight < 50

\* An allow-list that matches no URL.
isFromSafeSourceNever(lowerSrc) == FALSE

isFromSafeSource(lowerSrc) ==
    \E source \in safeImageSources : includes(lowerSrc, source)

\* shouldFilter of processImageElement; shouldRandomlyFilter is the outcome
\* of Math.random() < 0.01.
shouldFilterImage(img, shouldRandomlyFilter) ==
    LET lowerSrc == toLowerCase(img.src)
    IN \/ containsExplicitKeyword(lowerSrc)
       \/ /\ shouldRandomlyFilter
          /\ ~isFromSafeSource(lowerSrc)
          /\ ~isVerySmallImage(img)
          /\ img.naturalWidth > 200
          /\ img.naturalHeight > 200

\* processImageElement of image-processor.js on an image record.  wrapper
\* and overlay count the socioio-image-container ancestors of the image and
\* the overlays in them; a connected image has a parentNode, so a wrapper that
\* is created is inserted.  history and stats count the saveFilterHistory
\* calls and the increments of imagesFiltered (updateStats and the direct
\* storage update).
processImageElementOnUrl(img, shouldRandomlyFilter) ==
    LET drawn == [img EXCEPT !.shouldRandomlyFilter = shouldRandomlyFilter]
    IN IF ~img.isConnected THEN [img EXCEPT !.status = "skipped"]
       ELSE IF img.src = <<>> THEN [img EXCEPT !.status = "skipped"]
       ELSE IF ~shouldFilterImage(img, shouldRandomlyFilter)
       THEN [drawn EXCEPT !.status = "kept"]
       ELSE [drawn EXCEPT !.filter = "blur(20px)",
                          !.wrapper = IF @ = 0 THEN 1 ELSE @,
                          !.overlay = IF @ = 0 THEN 1 ELSE @,
                          !.history = @ + 1,
                          !.stats = @ + 2,
                          !.status = "filtered"]

Image(src, width, height, connected, wrapped) ==
    [src |-> src, naturalWidth |-> width, naturalHeight |-> height,
     isConnected |-> connected, filter |-> "",
     wrapper |-> IF wrapped THEN 1 ELSE 0,
     overlay |-> IF wrapped THEN 1 ELSE 0,
     history |-> 0, stats |-> 0, shouldRandomlyFilter |-> FALSE,
     status |-> "queued"]

\* The images tried: element.src is absolute, a scheme and a host followed by
\* a path; a host on the allow-list, a host with a keyword inside a longer
\* name, a path with a keyword in either case; natural sizes around the two
\* thresholds, 0 for an image that did not load; with or without a wrapper
\* left by an earlier blur.
SampleScheme == <<"h", "t", "t", "p", "s", ":", "/", "/">>
SampleHosts ==
    {<<"a", ".", "i", "o">>,
     <<"g", "i", "t", "h", "u", "b", ".", "c", "o", "m">>,
     <<"e", "s", "s", "e", "x", ".", "i", "o">>}
SamplePaths ==
    {<<"/", "p", ".", "j", "p", "g">>,
     <<"/", "x", "x", "x", ".", "j", "p", "g">>,
     <<"/", "X", "X", "X", ".", "j", "p", "g">>,
     <<"/", "g", "i", "t", "h", "u", "b", ".", "c", "o", "m">>}
SampleSizes == {0, 49, 50, 200, 201, 400}

SampleImages ==
    {Image(<<>>, 0, 0, TRUE, FALSE)} \cup
    {Image(SampleScheme \o host \o path, width, height, connected, wrapped) :
        host \in SampleHosts, path \in SamplePaths,
        width \in SampleSizes, height \in SampleSizes,
        connected \in BOOLEAN, wrapped \in BOOLEAN}

(* -------------------------------- Init -------------------------------- *)
\* The script has just been loaded: its globals, the storage, and the
\* bookkeeping of the model.
InitScript ==
    /\ script \in {"content", "contentNew"}
    /\ testPage \in BOOLEAN
    /\ lastLoaded \in {"content.js", "content-new.js", "image-processor.js"}
    /\ script = "content" => lastLoaded = "content.js"
    /\ script = "contentNew" => ~testPage /\ lastLoaded # "content.js"
    /\ isEnabled = TRUE
    /\ rescanTimers = <<>>
    /\ batchTimers = 0
    /\ processingQueue = <<>>
    /\ currentlyProcessing = FALSE
    /\ batch = <<>>
    /\ inFlight = {}
    /\ wait = [e \in Elems |-> "none"]
    /\ loadTimer = [e \in Elems |-> FALSE]
    /\ textElementsProcessed = {}
    /\ imageElementsProcessed = {}
    /\ encryptedElements = EmptyMap
    /\ classes = [e \in Elems |-> {}]
    /\ filter = [e \in Elems |-> ""]
    /\ wrapper = [e \in Elems |-> 0]
    /\ overlay = [e \in Elems |-> 0]
    /\ notice = [e \in Elems |-> "none"]
    /\ load = [e \in Elems |-> "complete"]
    /\ outcome = [e \in Elems |-> "none"]
    /\ counters = [k \in StorageKeys |-> 0]
    /\ counterOps = EmptyBag
    /\ filterHistory = <<>>
    /\ historyOps = EmptyBag
    /\ records = 0
    /\ enqueued = [e \in Elems |-> 0]
    /\ dispatched = [e \in Elems |-> 0]
    /\ toggles = 0
    /\ detaches = 0
    /\ redacted = [e \in Elems |-> 0]
    /\ historyCalls = [e \in Elems |-> 0]
    /\ statsCalls = [e \in Elems |-> 0]
    /\ notifications = EmptyBag
    /\ sessionStore = NoItem
    /\ recoveries = 0
    /\ reloads = 0
    /\ tests = 0
    /\ stylesInjected = FALSE
    /\ overlayStyle = [e \in Elems |-> NoStyle]
    /\ clicks = [e \in Elems |-> 0]

\* The document is complete when the script is loaded: initialize has run
\* once and no DOMContentLoaded will come.
InitComplete ==
    /\ InitScript
    /\ sample = NoSample
    /\ initPending = 1
    /\ listeners = 1
    /\ dclPending = FALSE

\* The script is loaded into a page that has no element of interest yet.
Init ==
    /\ InitComplete
    /\ dom = [e \in Elems |-> "absent"]
    /\ content = [e \in Elems |-> ""]
    /\ pageContent = [e \in Elems |-> ""]

\* The script is loaded at any document.readyState.  content.js registers
\* initialize for DOMContentLoaded in every case and also calls it at once
\* unless the document is loading; an interactive document may or may not
\* have fired DOMContentLoaded yet.  content-new.js registers it only while
\* the document is loading and calls it at once otherwise.
InitLoad ==
    /\ InitScript
    /\ sample = NoSample
    /\ \E readyState \in {"loading", "interactive", "complete"} :
          /\ initPending = IF readyState = "loading" THEN 0 ELSE 1
          /\ listeners = initPending
          /\ dclPending \in
                 CASE readyState = "loading" -> {TRUE}
                   [] readyState = "complete" -> {FALSE}
                   [] OTHER -> IF script = "content" THEN BOOLEAN ELSE {FALSE}
    /\ dom = [e \in Elems |-> "absent"]
    /\ content = [e \in Elems |-> ""]
    /\ pageContent = [e \in Elems |-> ""]

\* The script is loaded into a page that holds paragraphs already, all with a
\* listed word but at most one, and possibly an image.
InitQueue ==
    /\ InitComplete
    /\ \E k \in 0..NumText, clean \in SUBSET TextElems, images \in SUBSET ImageElems :
          /\ Cardinality(clean) <= 1
          /\ clean \subseteq 1..k
          /\ dom = [e \in Elems |-> IF e \in (1..k) \cup images THEN "connected"
                                    ELSE "absent"]
          /\ content = [e \in Elems |-> IF e \in clean THEN "clean"
                                        ELSE IF e \in 1..k THEN "profane"
                                        ELSE IF e \in images THEN "photo.jpg"
                                        ELSE ""]
          /\ pageContent = content

(* ------------------------- the page's own life ------------------------ *)
\* The page (or its scripts) inserts an element.  Only content-new.js reads
\* img.complete, so only there an image is inserted while still loading.
\* The texts a page inserts later are the first NumDynamic ones.
AddElement ==
    \E e \in Elems :
        /\ dom[e] = "absent"
        /\ IsText(e) => e <= NumDynamic
        /\ Cardinality({x \in Elems : dom[x] # "absent"}) < MaxElements
        /\ \E c \in (IF IsText(e) THEN PageTexts ELSE PageSrcs),
              ld \in (IF ~IsText(e) /\ script = "contentNew"
                      THEN {"loading", "complete"} ELSE {"complete"}) :
              LET s1 == [Cur EXCEPT !.dom[e] = "connected", !.content[e] = c,
                                    !.pageContent[e] = c,
                                    !.load[e] = IF c = "" THEN "complete" ELSE ld]
              IN Commit(Observed(s1, e))

\* An empty text element gets a text node (a childList mutation); an image
\* without a source gets one (an attribute change, which is not observed).
SetContent ==
    \E e \in Elems :
        /\ dom[e] # "absent"
        /\ content[e] = ""
        /\ e \notin DOMAIN encryptedElements
        /\ classes[e] = {}
        /\ \E c \in (IF IsText(e) THEN PageTexts ELSE PageSrcs) \ {""},
              ld \in (IF ~IsText(e) /\ script = "contentNew"
                      THEN {"loading", "complete"} ELSE {"complete"}) :
              LET s1 == [Cur EXCEPT !.content[e] = c, !.pageContent[e] = c,
                                    !.load[e] = ld]
              IN Commit(IF IsText(e) THEN Observed(s1, e) ELSE s1)

\* The page removes an ancestor of the element ("detached") or the element
\* itself ("orphan"); images the pipeline has wrapped leave with their wrapper.
\* No script reads the parent of a text element, so one mode is kept for those.
Detach ==
    \E e \in Elems, mode \in {"detached", "orphan"} :
        /\ detaches < MaxDetaches
        /\ dom[e] = "connected"
        /\ mode = "orphan" => ~IsText(e) /\ wrapper[e] = 0
        /\ Commit([Observed(Cur, e) EXCEPT !.dom[e] = mode,
                                           !.detaches = @ + 1])

(* ------------------------------ handlers ------------------------------ *)
\* The callback of chrome.storage.local.get(['enabled']) in initialize.
\* setupObserver: one more MutationObserver on document.body, with a
\* debounce closure of its own.
setupObserver(s) == [s EXCEPT !.rescanTimers = Append(@, <<>>)]

\* injectStyles appends the style sheet with the rules of the overlay,
\* .socioio-subtle among them.
injectStyles(s) == [s EXCEPT !.stylesInjected = TRUE]

InitCallback ==
    /\ initPending > 0
    /\ \E enabled \in BOOLEAN, rnd \in Rnd :
          LET s0 == [Cur EXCEPT !.initPending = @ - 1, !.isEnabled = enabled]
          IN Commit(IF enabled
                    THEN injectStyles(
                             scanContentForModeration(setupObserver(s0), rnd))
                    ELSE s0)

\* The document fires DOMContentLoaded and the listener the script has
\* registered runs initialize.
DOMContentLoaded ==
    /\ dclPending
    /\ \E expired \in BOOLEAN :
          Commit(initialize([Cur EXCEPT !.dclPending = FALSE], expired))

\* A listener that restores the page when protection is switched off and
\* only sets the flag when it is switched on.
onToggleProtectionWithoutScan(s, enabled, rnd) ==
    LET s0 == [s EXCEPT !.isEnabled = enabled]
    IN IF enabled THEN s0
       ELSE restoreOriginalContent(s0)

\* The onMessage listener on a toggleProtection message.
onToggleProtection(s, enabled, rnd) ==
    LET s0 == [s EXCEPT !.isEnabled = enabled]
    IN IF enabled THEN scanContentForModeration(s0, rnd)
       ELSE restoreOriginalContent(s0)

\* A message is delivered to every listener registered with
\* chrome.runtime.onMessage, one after the other; initialize runs at most
\* twice, so there are at most two.
ToggleProtection ==
    \E enabled \in BOOLEAN, rnd \in Rnd :
        /\ toggles < MaxToggles
        /\ listeners > 0
        /\ LET once == onToggleProtection([Cur EXCEPT !.toggles = @ + 1],
                                          enabled, rnd)
           IN Commit(IF listeners = 1 THEN once
                     ELSE onToggleProtection(once, enabled, rnd))

\* The user clicks on the overlay of a blurred image.
ClickOverlay ==
    \E e \in ImageElems :
        /\ Connected(Cur, e)
        /\ overlay[e] > 0
        /\ clicks[e] < MaxClicks
        /\ Commit(clickOverlay([Cur EXCEPT !.clicks[e] = @ + 1], e))

\* The timeout a debounce closure has set comes due: no mutation was
\* delivered for DEBOUNCE_DELAY since it was set.
RescanTimerFires ==
    \E i \in DOMAIN rescanTimers :
        \E j \in DOMAIN rescanTimers[i], rnd \in Rnd :
            LET pending == rescanTimers[i]
                s0 == [Cur EXCEPT !.rescanTimers[i] =
                          SubSeq(pending, 1, j - 1)
                              \o SubSeq(pending, j + 1, Len(pending))]
            IN Commit(IF s0.isEnabled THEN scanContentForModeration(s0, rnd)
                      ELSE s0)

\* setTimeout(processNextBatch, BATCH_DELAY) comes due.
BatchTimerFires ==
    /\ batchTimers > 0
    /\ \E rnd \in Rnd :
          Commit(processNextBatch([Cur EXCEPT !.batchTimers = @ - 1], rnd))

\* The fetch of analyze_text for e comes back.
TextReply ==
    \E e \in TextElems, data \in Replies :
        /\ wait[e] = "fetch"
        /\ Commit(BatchSettled(processTextElementReply(Cur, e, data)))

\* content.js: the fetch of analyze_image for e comes back.
ImageReply ==
    \E e \in ImageElems, data \in Replies :
        /\ wait[e] = "fetch"
        /\ Commit(BatchSettled(processImageElementReply(Cur, e, data)))

\* content-new.js: the image finishes loading; the onload handler, if set,
\* runs processImageElement and resolves.
ImageLoaded ==
    \E e \in ImageElems, rnd \in Rnd :
        /\ load[e] = "loading"
        /\ LET s0 == [Cur EXCEPT !.load[e] = "complete", !.wait[e] = "none"]
           IN IF wait[e] = "load"
              THEN LET res == processImageElementLocal(s0, e, rnd[e])
                   IN Commit(BatchSettled(Resolve(res.st, e, res.r)))
              ELSE Commit(s0)

\* content-new.js: the image fails to load; the onerror handler, if set,
\* resolves with a skipped outcome.
ImageFailed ==
    \E e \in ImageElems :
        /\ load[e] = "loading"
        /\ LET s0 == [Cur EXCEPT !.load[e] = "broken", !.wait[e] = "none"]
           IN IF wait[e] = "load"
              THEN Commit(BatchSettled(Resolve(s0, e, "skipped")))
              ELSE Commit(s0)

\* content-new.js: the 5 second timeout of processElement.
LoadTimeout ==
    \E e \in ImageElems :
        /\ loadTimer[e]
        /\ LET s0 == [Cur EXCEPT !.loadTimer[e] = FALSE]
           IN IF load[e] = "loading"
              THEN Commit(BatchSettled(Resolve(s0, e, "skipped")))
              ELSE Commit(s0)

\* The onMessage listener on an applyRecoveredContent message.
RecoveredTexts == PageTexts \ {""}

ApplyRecoveredContent ==
    \E recoveredText \in RecoveredTexts :
        /\ recoveries < MaxRecoveries
        /\ listeners > 0
        /\ LET once == applyRecoveredContent(
                           [Cur EXCEPT !.recoveries = @ + 1], recoveredText)
           IN Commit(IF listeners = 1 THEN once
                     ELSE applyRecoveredContent(once, recoveredText))

\* The timeout that removes a notification (30 s for the recovered text, 3 s
\* for the others), or the click on the close button of the former.
NotificationTimeout ==
    \E n \in BagToSet(notifications) :
        Commit([Mutated(Cur) EXCEPT !.notifications = @ (-) SetToBag({n})])

\* The user reloads the page: a new document, a new content script.
Reload ==
    \E expired \in BOOLEAN :
        /\ reloads < MaxReloads
        /\ Commit(initialize(reloaded([Cur EXCEPT !.reloads = @ + 1]),
                             expired))

\* The test script of the repository, run from the console of a page that
\* has image-processor.js loaded.
TestImageFiltration ==
    \E rnd \in Rnd :
        /\ script = "contentNew"
        /\ tests < MaxTests
        /\ LET s0 == [Cur EXCEPT !.tests = @ + 1]
           IN Commit(forEachProcessImageElement(
                         s0, DocumentOrder({e \in ImageElems : Connected(s0, e)}),
                         rnd))

(* -------------------------- storage callbacks ------------------------- *)
\* The callback of a counter get: newCount = current + 1, then set.
CounterGetCallback ==
    \E op \in BagToSet(counterOps) :
        /\ op.val = NoVal
        /\ Commit([Cur EXCEPT !.counterOps =
                       (@ (-) SetToBag({op}))
                       (+) SetToBag({[op EXCEPT !.val = counters[op.key] + 1]})])

\* The storage applies a counter set.
CounterSetApply ==
    \E op \in BagToSet(counterOps) :
        /\ op.val # NoVal
        /\ Commit([Cur EXCEPT !.counterOps = @ (-) SetToBag({op}),
                              !.counters[op.key] = op.val])

\* The callback of the get in saveFilterHistory.
HistoryGetCallback ==
    \E op \in BagToSet(historyOps) :
        /\ op.phase = "get"
        /\ Commit([Cur EXCEPT !.historyOps =
                       (@ (-) SetToBag({op}))
                       (+) SetToBag({[op EXCEPT
                                        !.phase = "set",
                                        !.history = historyWithItem(
                                            filterHistory, op.item)]})])

\* The storage applies the set of saveFilterHistory.
HistorySetApply ==
    \E op \in BagToSet(historyOps) :
        /\ op.phase = "set"
        /\ Commit([Cur EXCEPT !.historyOps = @ (-) SetToBag({op}),
                              !.filterHistory = op.history])

\* processTextElement on one connected element with a text of characters.
InitText ==
    /\ InitScript
    /\ initPending = 1
    /\ listeners = 1
    /\ dclPending = FALSE
    /\ dom = [e \in Elems |-> "absent"]
    /\ content = [e \in Elems |-> ""]
    /\ pageContent = [e \in Elems |-> ""]
    /\ sample \in {Element(text) : text \in SampleTexts}

ProcessTextElement ==
    /\ sample.status = "queued"
    /\ sample' = processTextElementLocal(sample)
    /\ UNCHANGED <<config, isEnabled, initPending, listeners, dclPending,
                   rescanTimers, batchTimers, processingQueue,
                   currentlyProcessing, batch, inFlight, wait, loadTimer,
                   textElementsProcessed, imageElementsProcessed,
                   encryptedElements, dom, content, classes, filter, wrapper,
                   overlay, notice, load, outcome, counters, counterOps,
                   filterHistory, historyOps, records, enqueued, dispatched,
                   redacted, historyCalls, statsCalls, toggles, detaches,
                   pageContent, notifications, sessionStore, recoveries,
                   reloads, tests, stylesInjected, overlayStyle, clicks>>

(* ------------------------------- Next --------------------------------- *)
\* The page's life and the handlers of the content script.
NextPipeline ==
    \/ AddElement
    \/ SetContent
    \/ Detach
    \/ InitCallback
    \/ ToggleProtection
    \/ RescanTimerFires
    \/ BatchTimerFires
    \/ TextReply
    \/ ImageReply
    \/ ImageLoaded
    \/ ImageFailed
    \/ LoadTimeout

\* The callbacks of chrome.storage.
NextStorage ==
    \/ CounterGetCallback
    \/ CounterSetApply
    \/ HistoryGetCallback
    \/ HistorySetApply

\* Recovery, reload and the console test, which the popup and the user drive.
NextUser ==
    \/ DOMContentLoaded
    \/ ClickOverlay
    \/ ApplyRecoveredContent
    \/ NotificationTimeout
    \/ Reload
    \/ TestImageFiltration


\* An image of the samples, before processImageElement is called on it.
InitImage ==
    /\ InitScript
    /\ initPending = 1
    /\ listeners = 1
    /\ dclPending = FALSE
    /\ dom = [e \in Elems |-> "absent"]
    /\ content = [e \in Elems |-> ""]
    /\ pageContent = [e \in Elems |-> ""]
    /\ sample \in SampleImages

\* processImageElement on the image of the sample, with either outcome of
\* the random draw.
ProcessImageElement ==
    /\ sample.status = "queued"
    /\ "naturalWidth" \in DOMAIN sample
    /\ \E shouldRandomlyFilter \in BOOLEAN :
           sample' = processImageElementOnUrl(sample, shouldRandomlyFilter)
    /\ UNCHANGED <<config, isEnabled, initPending, listeners, dclPending,
                   rescanTimers, batchTimers, processingQueue,
                   currentlyProcessing, batch, inFlight, wait, loadTimer,
                   textElementsProcessed, imageElementsProcessed,
                   encryptedElements, dom, content, classes, filter, wrapper,
                   overlay, notice, load, outcome, counters, counterOps,
                   filterHistory, historyOps, records, enqueued, dispatched,
                   redacted, historyCalls, statsCalls, toggles, detaches,
                   pageContent, notifications, sessionStore, recoveries,
                   reloads, tests, stylesInjected, overlayStyle, clicks>>

\* processTextElement on the text of the sample.
NextText == ProcessTextElement

\* processImageElement of image-processor.js on the image of the sample.
NextImage == ProcessImageElement

Next == NextPipeline \/ NextStorage \/ NextUser \/ NextText \/ NextImage

Spec == Init /\ [][Next]_vars

\* The local heuristic of processTextElement on texts of characters.

SpecText == InitText /\ [][NextText]_vars

\* The decision of processImageElement on URLs of characters.
SpecImage == InitImage /\ [][NextImage]_vars

\* The pipeline on its own.  No handler of the content script reads counters,
\* counterOps, filterHistory or historyOps, so what the pipeline does is the
\* same whenever the storage callbacks run; here they are left outstanding.
SpecPipeline == Init /\ [][NextPipeline]_vars

\* The counters on a page that only grows: elements are inserted, scanned and
\* classified, and the counter callbacks run in any order in between.
NextStats ==
    \/ AddElement
    \/ InitCallback
    \/ RescanTimerFires
    \/ BatchTimerFires
    \/ TextReply
    \/ ImageReply
    \/ ImageLoaded
    \/ CounterGetCallback
    \/ CounterSetApply

SpecStats == Init /\ [][NextStats]_vars

\* The history on a page that only grows: elements are inserted, scanned and
\* classified, and the callbacks of the history's get and set run in any
\* order in between.
NextLedger ==
    \/ AddElement
    \/ InitCallback
    \/ RescanTimerFires
    \/ BatchTimerFires
    \/ TextReply
    \/ ImageReply
    \/ ImageLoaded
    \/ HistoryGetCallback
    \/ HistorySetApply

SpecLedger == Init /\ [][NextLedger]_vars

\* Recovery of redacted text on a page that only grows.
NextRecovery ==
    \/ AddElement
    \/ InitCallback
    \/ RescanTimerFires
    \/ BatchTimerFires
    \/ TextReply
    \/ ApplyRecoveredContent
    \/ NotificationTimeout

SpecRecovery == Init /\ [][NextRecovery]_vars

\* A page that grows, is classified and is reloaded.
NextReload ==
    \/ AddElement
    \/ InitCallback
    \/ RescanTimerFires
    \/ BatchTimerFires
    \/ TextReply
    \/ ImageReply
    \/ ImageLoaded
    \/ Reload

SpecReload == Init /\ [][NextReload]_vars

\* Images blurred by the pipeline, unblurred by a toggle and blurred again
\* by the console test.
NextBlur ==
    \/ AddElement
    \/ InitCallback
    \/ RescanTimerFires
    \/ BatchTimerFires
    \/ TextReply
    \/ ImageReply
    \/ ImageLoaded
    \/ ToggleProtection
    \/ TestImageFiltration

SpecBlur == Init /\ [][NextBlur]_vars

\* The whole life of a page, from the load of the script at any readyState:
\* initialisation, mutation bursts, rescans and control messages.
NextLifetime ==
    \/ AddElement
    \/ DOMContentLoaded
    \/ InitCallback
    \/ ToggleProtection
    \/ RescanTimerFires
    \/ BatchTimerFires
    \/ TextReply

SpecLifetime == InitLoad /\ [][NextLifetime]_vars

\* Redaction, the history writes it causes, and the two handlers that undo
\* redactions: the toggle and the recovery.
NextKeep ==
    \/ AddElement
    \/ InitCallback
    \/ RescanTimerFires
    \/ BatchTimerFires
    \/ TextReply
    \/ ToggleProtection
    \/ ApplyRecoveredContent
    \/ HistoryGetCallback
    \/ HistorySetApply

SpecKeep == Init /\ [][NextKeep]_vars

\* Images blurred by the pipeline and the clicks of the user on their
\* overlays, with protection on at load or switched on later.
NextClick ==
    \/ AddElement
    \/ InitCallback
    \/ ToggleProtection
    \/ RescanTimerFires
    \/ BatchTimerFires
    \/ ImageReply
    \/ ImageLoaded
    \/ ClickOverlay

SpecClick == Init /\ [][NextClick]_vars

\* Images blocked or blurred, and what the user can do afterwards: clicks,
\* toggles and recovery messages.
NextBlock ==
    \/ AddElement
    \/ InitCallback
    \/ RescanTimerFires
    \/ BatchTimerFires
    \/ TextReply
    \/ ImageReply
    \/ ToggleProtection
    \/ ApplyRecoveredContent
    \/ ClickOverlay

SpecBlock == Init /\ [][NextBlock]_vars

\* Images that load late or never.  A timeout that was set comes due, and
\* here every classification call comes back; nothing makes an image load.
NextLoad ==
    \/ AddElement
    \/ InitCallback
    \/ RescanTimerFires
    \/ BatchTimerFires
    \/ TextReply
    \/ ImageReply
    \/ ImageLoaded
    \/ LoadTimeout

SpecLoad ==
    /\ Init
    /\ [][NextLoad]_vars
    /\ WF_vars(LoadTimeout)
    /\ WF_vars(TextReply)
    /\ WF_vars(ImageReply)

\* The queue of content.js under the scheduling the browser gives: a timeout
\* that has been set comes due and a fetch that has been started resolves or
\* rejects; the page grows and the user toggles protection at any time.
InitDrain == Init /\ script = "content" /\ ~testPage

NextDrain ==
    \/ AddElement
    \/ InitCallback
    \/ ToggleProtection
    \/ RescanTimerFires
    \/ BatchTimerFires
    \/ TextReply
    \/ ImageReply

SpecDrain ==
    /\ InitDrain
    /\ [][NextDrain]_vars
    /\ WF_vars(BatchTimerFires)
    /\ WF_vars(TextReply)
    /\ WF_vars(ImageReply)

\* The scanner of either script under the scheduling the browser gives: the
\* callback of chrome.storage.local.get in initialize runs.  What the backend
\* answers has no part in what is scanned, and the fetches a scan starts are
\* left outstanding.
NextScan ==
    \/ AddElement
    \/ InitCallback
    \/ ToggleProtection
    \/ RescanTimerFires

InitScan == Init /\ ~testPage

SpecScan ==
    /\ InitScan
    /\ [][NextScan]_vars
    /\ WF_vars(InitCallback)

\* The scheduler on a page that is full when the script is loaded.
NextQueue ==
    \/ InitCallback
    \/ RescanTimerFires
    \/ BatchTimerFires
    \/ TextReply
    \/ ImageReply

SpecQueue == InitQueue /\ [][NextQueue]_vars

(* ------------------- the history ledger on its own -------------------- *)
\* saveFilterHistory called again once the previous record is stored; the
\* n-th record carries n as its content.
RecordNext ==
    /\ historyOps = EmptyBag
    /\ records < MaxRecords
    /\ Commit(saveFilterHistory([Cur EXCEPT !.records = @ + 1],
                                records + 1, "text"))

NextHistory ==
    \/ RecordNext
    \/ HistoryGetCallback
    \/ HistorySetApply

SpecHistory == Init /\ [][NextHistory]_vars

(* ------------------------------ claims -------------------------------- *)
RECURSIVE SumOver(_, _)
SumOver(f, S) ==
    IF S = {} THEN 0
    ELSE LET x == CHOOSE y \in S : TRUE IN f[x] + SumOver(f, S \ {x})

Occurrences(q, e) == Cardinality({i \in 1..Len(q) : q[i] = e})

\* C1: over any sequence of scans (initial scan, debounced rescans, scans on
\* toggleProtection(true)) every element is appended to processingQueue at
\* most once, and a scan appends only elements no earlier scan has marked.
C1_EnqueuedAtMostOnce ==
    \A e \in Elems :
        /\ enqueued[e] <= 1
        /\ Occurrences(processingQueue, e) <= 1
        /\ e \in Range(processingQueue) =>
               e \in textElementsProcessed \cup imageElementsProcessed

\* An element that was dispatched is still on the page with content while a
\* later scan has queued another element behind it.
C1_Witness ==
    \E e, f \in Elems :
        /\ e # f
        /\ dom[e] = "connected" /\ content[e] # ""
        /\ enqueued[e] = 1 /\ dispatched[e] = 1
        /\ f \in Range(processingQueue)

\* C2: at most one batch is in flight: while currentlyProcessing is true a
\* call of processNextBatch changes nothing (nothing dequeued, nothing
\* dispatched, currentlyProcessing still true, queue unchanged), and no step
\* that starts with a batch in flight dispatches an element.
C2_BatchExclusive ==
    [][currentlyProcessing =>
          /\ \A rnd \in Rnd : processNextBatch(Cur, rnd) = Cur
          /\ dispatched' = dispatched]_vars

\* A scan has queued an element while a batch was in flight and protection
\* on, and its call of processNextBatch has left it there.
C2_Witness ==
    currentlyProcessing /\ isEnabled /\ Len(processingQueue) > 0

\* C3: when an item of a batch ends with an error outcome, its siblings stay
\* in flight with their continuation pending; currentlyProcessing is true
\* exactly while an item of the batch is in flight, and when the last item
\* settles with elements still queued the next batch is scheduled.
C3_FailureIsolated ==
    [][/\ currentlyProcessing = (inFlight # {})
       /\ \A f \in inFlight : wait[f] # "none"
       /\ \A e \in inFlight :
             (e \notin inFlight' /\ outcome'[e] = "error") =>
                 /\ \A f \in inFlight \ {e} : f \in inFlight' /\ wait'[f] = wait[f]
                 /\ currentlyProcessing' = (inFlight' # {})
                 /\ (inFlight' = {} /\ Len(processingQueue) > 0) =>
                        batchTimers' = batchTimers + 1]_vars

\* An item of the batch in flight has failed and a sibling is still in flight.
C3_Witness ==
    \E e, f \in Range(batch) :
        /\ e # f
        /\ outcome[e] = "error"
        /\ f \in inFlight
        /\ currentlyProcessing

\* C4: a step that ends with protection disabled enqueues nothing and
\* dispatches nothing; while protection is disabled a call of
\* scanContentForModeration or processNextBatch changes nothing; the step that
\* disables protection leaves the calls in flight as they are.
C4_DisabledIsQuiet ==
    [][/\ ~isEnabled' => /\ enqueued' = enqueued
                         /\ dispatched' = dispatched
                         /\ processingQueue' = processingQueue
       /\ ~isEnabled => \A rnd \in Rnd :
                            /\ scanContentForModeration(Cur, rnd) = Cur
                            /\ processNextBatch(Cur, rnd) = Cur
       /\ (isEnabled /\ ~isEnabled') => inFlight' = inFlight /\ wait' = wait]_vars

\* Protection is off, the batch that was in flight has settled, its
\* inter-batch timer has come due and the queued element is still queued.
C4_Witness ==
    /\ ~isEnabled
    /\ ~currentlyProcessing
    /\ Len(processingQueue) > 0
    /\ batchTimers = 0
    /\ \E e \in Elems : dispatched[e] = 1 /\ outcome[e] # "none"

\* The action strings the specification recognises for an item.
Recognised(e) ==
    IF IsText(e) THEN {"keep", "encrypt", "remove"} ELSE {"allow", "blur", "block"}

\* The handling of the reply data for item e, as TextReply and ImageReply do it.
HandleReply(s, e, data) ==
    BatchSettled(IF IsText(e) THEN processTextElementReply(s, e, data)
                 ELSE processImageElementReply(s, e, data))

\* C5: when the reply for an item carries an action outside the recognised
\* set, handling it leaves the element's content and classes as they were,
\* records no history entry and increments no counter.
C5_FailOpen ==
    [][\A e \in Elems : \A data \in Replies :
          (/\ wait[e] = "fetch"
           /\ data.kind = "ok"
           /\ data.action \notin Recognised(e)
           /\ Cur' = HandleReply(Cur, e, data)) =>
              /\ content'[e] = content[e]
              /\ classes'[e] = classes[e]
              /\ historyOps' = historyOps
              /\ counterOps' = counterOps]_vars

\* C6: when the local heuristic did not match and the backend replies
\* {action: "keep"}, the element is unchanged, no history entry is recorded
\* and the text counter is not incremented.
C6_KeepIsNoop ==
    [][\A e \in TextElems : \A data \in Replies :
          (/\ wait[e] = "fetch"
           /\ data.kind = "ok"
           /\ data.action = "keep"
           /\ Cur' = HandleReply(Cur, e, data)) =>
              /\ content'[e] = content[e]
              /\ classes'[e] = classes[e]
              /\ historyOps' = historyOps
              /\ counterOps' = counterOps]_vars

\* C7: once every pending counter callback has run, textFiltered equals the
\* number of text redactions, each of which called updateStats once.
C7_TextCounterExact ==
    (/\ counterOps = EmptyBag
     /\ \A e \in TextElems : statsCalls[e] = redacted[e]) =>
        counters["textFiltered"] = SumOver(redacted, TextElems)

\* C8: once every pending counter callback has run, imagesFiltered equals the
\* number of image redactions, each of which called updateStats once.
C8_ImageCounterExact ==
    (/\ counterOps = EmptyBag
     /\ \A e \in ImageElems : statsCalls[e] = redacted[e]) =>
        counters["imagesFiltered"] = SumOver(redacted, ImageElems)

\* C9: every redaction of an element comes with exactly one call of
\* saveFilterHistory for it.
C9_HistoryOncePerRedaction ==
    \A e \in Elems : historyCalls[e] = redacted[e]

\* The number of records whose set has been applied by the storage.
Stored == IF historyOps = EmptyBag THEN records ELSE records - 1

\* C10: after any number of records stored one after another, filterHistory
\* holds the min(n, 100) most recent of them, newest first.
C10_HistoryCapped ==
    /\ Len(filterHistory) = Min(Stored, HISTORY_CAP)
    /\ \A i \in 1..Len(filterHistory) :
          filterHistory[i].originalContent = Stored - i + 1

\* All MaxRecords records are stored: the ledger is full, the newest is at
\* the head and the records beyond the cap are gone.
C10_Witness ==
    /\ records = MaxRecords
    /\ historyOps = EmptyBag
    /\ Len(filterHistory) = HISTORY_CAP
    /\ filterHistory[1].originalContent = MaxRecords
    /\ filterHistory[HISTORY_CAP].originalContent = MaxRecords - HISTORY_CAP + 1

\* The handling of an applyRecoveredContent message carrying recoveredText.
HandleRecovery(s, recoveredText) ==
    applyRecoveredContent([s EXCEPT !.recoveries = @ + 1], recoveredText)

\* The pipeline has replaced the text of e by the placeholder and marked it.
Placeheld(e) ==
    /\ dom[e] = "connected"
    /\ redacted[e] > 0
    /\ content[e] = PLACEHOLDER
    /\ FILTERED_CLASS \in classes[e]

\* C11: for a text T the pipeline redacted to the placeholder in element e,
\* handling applyRecoveredContent(T) sets the content of e to exactly T and
\* removes the socioio-filtered-text marker of e, whatever other redacted
\* elements the page holds.
C11_RestoreRoundTrip ==
    [][\A e \in TextElems :
          (/\ Placeheld(e)
           /\ recoveries < MaxRecoveries
           /\ Cur' = HandleRecovery(Cur, pageContent[e])) =>
              /\ content'[e] = pageContent[e]
              /\ FILTERED_CLASS \notin classes'[e]]_vars

\* The handling of a toggleProtection message with enabled = false.
HandleToggleOff(s) ==
    restoreOriginalContent([s EXCEPT !.isEnabled = FALSE, !.toggles = @ + 1])

\* C12: when protection is toggled off, every element of the document tagged
\* as encrypted gets its original text back and loses the encrypted marker,
\* and afterwards the map of encrypted elements is empty.
C12_EncryptedRestored ==
    [][(toggles < MaxToggles /\ Cur' = HandleToggleOff(Cur)) =>
          /\ \A e \in TextElems :
                (dom[e] = "connected" /\ ENCRYPTED_CLASS \in classes[e]) =>
                    /\ content'[e] = pageContent[e]
                    /\ ENCRYPTED_CLASS \notin classes'[e]
          /\ encryptedElements' = EmptyMap]_vars

\* C13: after a toggleProtection message with enabled = false has been
\* handled, every element the pipeline redacted and the document still shows
\* (in its own place or through its block notice) carries its original
\* content, and no overlay or block notice is left in the document.
C13_PageUnmodified ==
    [][(toggles < MaxToggles /\ Cur' = HandleToggleOff(Cur)) =>
          \A e \in Elems :
              /\ (redacted[e] > 0 /\ dom[e] = "connected" /\ IsText(e)) =>
                     content'[e] = pageContent[e]
              /\ (redacted[e] > 0 /\ dom[e] = "connected" /\ ~IsText(e)) =>
                     filter'[e] # "blur(20px)" /\ overlay'[e] = 0
              /\ (redacted[e] > 0 /\ notice[e] = "connected") =>
                     notice'[e] = "none" /\ dom'[e] = "connected"]_vars

\* The blur branch of processImageElement as the script in use applies it.
ApplyBlur(s, e) ==
    IF script = "content" THEN blurWithHistory(s, e).st ELSE blurImage(s, e)

\* C14: an image has at most one socioio-image-container wrapper and at most
\* one overlay in it, and applying the blur transformation to an image and
\* then once more yields exactly one wrapper and exactly one overlay, the
\* second application adding no node.
C14_BlurIdempotent ==
    \A e \in ImageElems :
        /\ wrapper[e] <= 1
        /\ overlay[e] <= wrapper[e]
        /\ dom[e] \in {"connected", "detached"} =>
               LET once == ApplyBlur(Cur, e)
                   twice == ApplyBlur(once, e)
               IN /\ once.wrapper[e] = 1 /\ once.overlay[e] = 1
                  /\ twice.wrapper[e] = 1 /\ twice.overlay[e] = 1
                  /\ twice.dom = once.dom /\ twice.notice = once.notice

\* The pipeline has blurred an image and the console test has blurred it
\* again: one wrapper, one overlay.
C14_Witness ==
    \E e \in ImageElems :
        /\ redacted[e] >= 2
        /\ filter[e] = "blur(20px)"
        /\ wrapper[e] = 1
        /\ overlay[e] = 1

\* C15: when the classification call of a text element fails (the fetch or
\* the parsing of its body throws), the item ends with an error outcome and
\* the element keeps its content and its classes; an element whose item has
\* ended with an error outcome stays marked processed and is not enqueued or
\* dispatched again.
C15_TextErrorNotRetried ==
    [][\A e \in TextElems :
          /\ \A data \in Replies :
                (/\ wait[e] = "fetch"
                 /\ data.kind = "neterr"
                 /\ Cur' = HandleReply(Cur, e, data)) =>
                    /\ outcome'[e] = "error"
                    /\ content'[e] = content[e]
                    /\ classes'[e] = classes[e]
          /\ outcome[e] = "error" =>
                /\ outcome'[e] = "error"
                /\ EXCLUSION_CLASS \in classes'[e]
                /\ e \in textElementsProcessed'
                /\ enqueued'[e] = enqueued[e]
                /\ dispatched'[e] = dispatched[e]
                /\ wait'[e] = "none"]_vars

\* The call for a text element has failed, the element is still in the
\* document with its text, and a scan on toggleProtection(true) has since
\* run and another element has been dispatched.
C15_Witness ==
    \E e \in TextElems, f \in Elems :
        /\ e # f
        /\ outcome[e] = "error"
        /\ dom[e] = "connected"
        /\ content[e] = "clean"
        /\ enqueued[e] = 1
        /\ isEnabled /\ toggles = MaxToggles
        /\ dispatched[f] = 1

\* No element of the document carries a mark of redaction that either
\* applyRecoveredContent looks for.
NoRedactedFound ==
    \A e \in TextElems :
        dom[e] = "connected" =>
            /\ FILTERED_CLASS \notin classes[e]
            /\ ENCRYPTED_CLASS \notin classes[e]
            /\ content[e] # PLACEHOLDER
            /\ ~isAsterisks(content[e])

\* C16: when recovery is invoked and no redacted element is found, no element
\* is modified and one more notification showing the recovered text is on the
\* page.
C16_NotFoundNotified ==
    [][\A recoveredText \in RecoveredTexts :
          (/\ NoRedactedFound
           /\ recoveries < MaxRecoveries
           /\ Cur' = HandleRecovery(Cur, recoveredText)) =>
              /\ content' = content
              /\ classes' = classes
              /\ LET n == [kind |-> "recovered", text |-> recoveredText]
                 IN CopiesIn(n, notifications') = CopiesIn(n, notifications) + 1]_vars

\* The scan at the initialisation of the script in state s queues element e.
Eligible(s, e) ==
    \A rnd \in Rnd :
        scanContentForModeration([s EXCEPT !.isEnabled = TRUE], rnd).enqueued[e] = 1

\* C17: a page reload resets the pipeline: the processed sets and the queue
\* are empty, and the first scan queues every text or image element of the
\* reloaded page that has content, whatever happened to it before the reload.
C17_ReloadResets ==
    [][reloads' = reloads + 1 =>
          /\ textElementsProcessed' = {}
          /\ imageElementsProcessed' = {}
          /\ processingQueue' = <<>>
          /\ ~currentlyProcessing'
          /\ \A e \in Elems :
                (dom'[e] = "connected" /\ content'[e] # "") => Eligible(Cur', e)]_vars

\* C18: an item is classified and its element mutated only while the item is
\* in flight in its batch: a step in which an element is neither in flight
\* nor dispatched leaves its redactions, history records and counter updates
\* as they were, also when the item's wait for the image load was ended by
\* the 5-second timeout.
C18_NothingAfterSettle ==
    [][\A e \in Elems :
          (e \notin inFlight /\ dispatched'[e] = dispatched[e]) =>
              /\ redacted'[e] = redacted[e]
              /\ historyCalls'[e] = historyCalls[e]
              /\ statsCalls'[e] = statsCalls[e]]_vars

\* C19: while the timeout a settled batch has set for the next run is still
\* pending, that is for BATCH_DELAY after the settle, only the timeout coming
\* due dispatches elements: no rescan and no toggleProtection message does.
C19_DelayBetweenBatches ==
    [][(batchTimers > 0 /\ dispatched' # dispatched) =>
          \E rnd \in Rnd :
              Cur' = processNextBatch([Cur EXCEPT !.batchTimers = @ - 1], rnd)]_vars

\* The place of e in q.
Pos(q, e) == CHOOSE i \in 1..Len(q) : q[i] = e

\* x has entered the queue before y, given the queue at the start of a step
\* and the set of elements a scan of that step appends, texts first and each
\* kind in document order.
Before(q, x, y) ==
    IF x \in Range(q) THEN (y \in Range(q) => Pos(q, x) < Pos(q, y))
    ELSE y \notin Range(q) /\ x < y

\* C20: a call of processNextBatch that dispatches takes exactly the first
\* min(BATCH_SIZE, queue length) items off the head of processingQueue, in
\* queue order; in every step the elements dispatched are the ones that
\* entered the queue first, at most BATCH_SIZE of them, and the ones left
\* keep their order.
C20_FifoBatches ==
    [][/\ \A rnd \in Rnd :
             (~currentlyProcessing /\ Len(processingQueue) > 0 /\ isEnabled) =>
                 LET t == processNextBatch(Cur, rnd)
                     n == Min(BatchSize, Len(processingQueue))
                 IN /\ t.processingQueue =
                           SubSeq(processingQueue, n + 1, Len(processingQueue))
                    /\ {e \in Elems : t.dispatched[e] # dispatched[e]}
                           = {processingQueue[i] : i \in 1..n}
                    /\ t.batch \in {<<>>, SubSeq(processingQueue, 1, n)}
       /\ LET old == Range(processingQueue)
              new == {e \in Elems : enqueued'[e] > enqueued[e]}
              out == {e \in Elems : dispatched'[e] > dispatched[e]}
          IN /\ out \subseteq old \cup new
             /\ Range(processingQueue') = (old \cup new) \ out
             /\ Len(processingQueue') = Cardinality((old \cup new) \ out)
             /\ Cardinality(out) <= BatchSize
             /\ out # {} => Cardinality(out) =
                                Min(BatchSize, Cardinality(old \cup new))
             /\ \A x, y \in old \cup new :
                   (x # y /\ Before(processingQueue, x, y)) =>
                       /\ y \in out => x \in out
                       /\ (x \notin out /\ y \notin out) =>
                              Pos(processingQueue', x) < Pos(processingQueue', y)]_vars

\* A full batch has been dispatched and the rest of the page waits in the
\* queue behind it.
C20_Witness ==
    /\ Cardinality({e \in Elems : dispatched[e] = 1}) = BatchSize
    /\ currentlyProcessing
    /\ Len(processingQueue) > 0
    /\ \A i \in 1..Len(processingQueue) : dispatched[processingQueue[i]] = 0

\* C21: a burst of DOM mutations makes the debounced observer callback scan
\* once, when the timeout set by the last mutation of the burst comes due,
\* and never at the leading edge.  Every observer has at most one timeout
\* pending, the one its last mutation set; the step that inserts an element
\* under an observer enqueues nothing and leaves that timeout pending.
C21_TrailingDebounce ==
    [][/\ \A i \in DOMAIN rescanTimers' : rescanTimers'[i] \in {<<>>, <<TRUE>>}
       /\ (/\ Observing(Cur)
           /\ \E e \in Elems : dom[e] = "absent" /\ dom'[e] = "connected")
          => /\ enqueued' = enqueued
             /\ \A i \in DOMAIN rescanTimers' : rescanTimers'[i] = <<TRUE>>]_vars

\* Two elements inserted in one burst, not scanned yet, and one timeout pending.
C21_Witness ==
    /\ rescanTimers = << <<TRUE>> >>
    /\ Cardinality({e \in Elems : dom[e] = "connected" /\ enqueued[e] = 0}) >= 2

\* C22: over the whole life of the page, from the load of the script on, at
\* most one message listener and one mutation observer are registered and at
\* most one rescan timeout is pending.
C22_SingleRegistration ==
    /\ listeners <= 1
    /\ Len(rescanTimers) <= 1
    /\ SumOver([i \in DOMAIN rescanTimers |-> Len(rescanTimers[i])],
               DOMAIN rescanTimers) <= 1

\* A character of a word: a letter, accented or not, a digit or an underscore.
WordChar(c) == RegExpWordChar(c) \/ c = "U+00E9"

\* The text has a listed word as a whole word, in any case: an occurrence
\* with no character of a word next to it.
HasListedWord(text) ==
    \E word \in profanityWords, i \in DOMAIN text :
        LET j == i + Len(word) - 1
        IN /\ j <= Len(text)
           /\ toLowerCase(SubSeq(text, i, j)) = word
           /\ i = 1 \/ ~WordChar(text[i - 1])
           /\ j = Len(text) \/ ~WordChar(text[j + 1])

\* C23: processTextElement redacts a trimmed text of at most 200 characters
\* with a listed word as a whole word locally and sends no analyze_text
\* request for it; it never redacts a text of more than 200 characters
\* locally and sends it to the backend; a text whose words only contain a
\* listed word as a substring is not redacted locally.
C23_LocalDetection ==
    [][sample.status = "queued" =>
          LET text == trim(sample.textContent)
          IN /\ (Len(text) <= 200 /\ HasListedWord(text))
                    => /\ sample'.status = "filtered"
                       /\ sample'.requests = 0
                       /\ sample'.textContent # sample.textContent
             /\ Len(text) > 200
                    => /\ sample'.status = "fetch"
                       /\ sample'.requests = 1
                       /\ sample'.textContent = sample.textContent
             /\ ~HasListedWord(text) => sample'.status # "filtered"]_vars

RedactedByPriority ==
    DocumentOrder({e \in TextElems : dom[e] = "connected"
                      /\ FILTERED_CLASS \in classes[e]})
    \o DocumentOrder({e \in TextElems : dom[e] = "connected"
                         /\ isAsterisks(content[e])})
    \o DocumentOrder({e \in TextElems : dom[e] = "connected"
                         /\ content[e] = PLACEHOLDER})

\* C25: handling applyRecoveredContent changes the content of exactly one
\* element, the first redacted element in the order of priority, and leaves
\* the content of every other element as it was.
C25_OneElementRecovered ==
    [][\A recoveredText \in RecoveredTexts :
          (/\ RedactedByPriority # <<>>
           /\ recoveries < MaxRecoveries
           /\ Cur' = HandleRecovery(Cur, recoveredText)) =>
              /\ content'[RedactedByPriority[1]] = recoveredText
              /\ \A f \in Elems \ {RedactedByPriority[1]} :
                     content'[f] = content[f]]_vars

\* C26: toggling protection off and recovering content never remove or alter
\* entries of the stored filterHistory: the history after the step that
\* handles the toggle or the recovery message is the history before it, and
\* the writes to it that are under way are the same.
C26_HistoryKept ==
    [][((toggles' # toggles /\ ~isEnabled') \/ recoveries' # recoveries)
          => /\ filterHistory' = filterHistory
             /\ historyOps' = historyOps]_vars

\* Protection is off after a toggle, a recovery message was handled, and the
\* stored history has an entry.
C26_Witness ==
    /\ toggles > 0
    /\ ~isEnabled
    /\ recoveries > 0
    /\ filterHistory # <<>>

\* C27: the click-to-reveal toggle is reversible without end: after n clicks
\* on the overlay of a blurred image the image is blurred and the overlay
\* shows when n is even, and the image is unblurred and the overlay hidden
\* when n is odd.
C27_ClickReversible ==
    \A e \in ImageElems :
        (dom[e] = "connected" /\ overlay[e] > 0) =>
            IF clicks[e] % 2 = 0
            THEN filter[e] = "blur(20px)" /\ ~OverlayHidden(Cur, e)
            ELSE filter[e] # "blur(20px)" /\ OverlayHidden(Cur, e)

\* C28: a block is irreversible within the session: an image that was
\* replaced by the content-blocked notice, and so has no parent any more, is
\* never part of the document again, whatever click, toggle or recovery
\* message follows.
C28_BlockIrreversible ==
    [][\A e \in ImageElems : dom[e] = "orphan" => dom'[e] = "orphan"]_vars

\* A blocked image whose notice a toggle has removed, after a recovery
\* message, with protection on again.
C28_Witness ==
    \E e \in ImageElems :
        /\ dom[e] = "orphan"
        /\ redacted[e] > 0
        /\ notice[e] = "none"
        /\ toggles = MaxToggles
        /\ isEnabled
        /\ recoveries > 0

\* The processing of e is not complete: e waits in the queue or in a batch
\* that is not dispatched yet, or its classification call is outstanding.
Unfinished(e) ==
    \/ \E i \in DOMAIN processingQueue : processingQueue[i] = e
    \/ wait[e] = "fetch"

\* C29: an element that is detached from the document before its processing
\* completes yields a skipped outcome and nothing is done for it: no step
\* changes its content or classes, adds it to the map of encrypted elements,
\* records history or counts it, and its outcome can only become skipped.
C29_DetachedSkipped ==
    [][\A e \in Elems :
          (Unfinished(e) /\ dom[e] \in {"detached", "orphan"}) =>
              /\ content'[e] = content[e]
              /\ classes'[e] = classes[e]
              /\ (e \in DOMAIN encryptedElements') = (e \in DOMAIN encryptedElements)
              /\ historyCalls'[e] = historyCalls[e]
              /\ statsCalls'[e] = statsCalls[e]
              /\ outcome'[e] \in {outcome[e], "skipped"}]_vars

\* C30: when the analyze_image call of an image fails with a network error,
\* handling the failure classifies the image by the local heuristic, on any
\* page: the outcome is filtered or kept as the heuristic decides for some
\* draw of its random sample, and it is never an error.
C30_ImageFallback ==
    [][\A e \in ImageElems : \A data \in Replies :
          (/\ wait[e] = "fetch"
           /\ dom[e] = "connected"
           /\ data.kind = "neterr"
           /\ Cur' = HandleReply(Cur, e, data)) =>
              \E sampled \in BOOLEAN :
                  outcome'[e] = IF shouldFilter(Cur, e, sampled)
                                THEN "filtered" ELSE "kept"]_vars

\* C31: an image whose load does not finish does not block its batch: an
\* item that waits for the load of its image settles, with a skipped outcome
\* when the image is still loading at that time, and a batch in flight
\* settles, so that currentlyProcessing is false again.
C31_LoadTimeoutSettles ==
    /\ \A e \in ImageElems :
          (e \in inFlight /\ wait[e] = "load")
              ~> (e \notin inFlight
                  /\ (load[e] = "loading" => outcome[e] = "skipped"))
    /\ currentlyProcessing ~> ~currentlyProcessing

\* The item of an image that is still loading has settled as skipped and its
\* batch is over.
C31_Witness ==
    \E e \in ImageElems :
        /\ load[e] = "loading"
        /\ wait[e] = "load"
        /\ dispatched[e] = 1
        /\ outcome[e] = "skipped"
        /\ ~currentlyProcessing

\* C32: the map of encrypted elements, which content.js keeps, holds an entry
\* for an element exactly while the element is encrypted: every key carries
\* the encrypted marker and every element with the marker is a key.
C32_MapTracksEncryption ==
    script = "content" =>
        \A e \in TextElems :
            (e \in DOMAIN encryptedElements) <=> (ENCRYPTED_CLASS \in classes[e])

\* C33: applying an Encrypt verdict replaces the text of the element by the
\* processed_text of the reply, tags the element as encrypted and records
\* its original text in the map of encrypted elements; in every state each
\* element with the encrypted marker is a key of the map, mapped to the text
\* it had before the encryption.
C33_EncryptRecorded ==
    [][/\ \A e \in TextElems : \A data \in Replies :
             (/\ wait[e] = "fetch"
              /\ dom[e] = "connected"
              /\ data.kind = "ok"
              /\ data.action = "encrypt"
              /\ Cur' = HandleReply(Cur, e, data)) =>
                 /\ content'[e] = data.processed_text
                 /\ ENCRYPTED_CLASS \in classes'[e]
                 /\ e \in DOMAIN encryptedElements'
                 /\ encryptedElements'[e] = content[e]
       /\ \A e \in TextElems :
             ENCRYPTED_CLASS \in classes'[e] =>
                 /\ e \in DOMAIN encryptedElements'
                 /\ encryptedElements'[e] = pageContent'[e]]_vars

(* ------------------------------- C34 ---------------------------------- *)
\* The URL has one of the explicit keywords somewhere in it, in any case.
HasExplicitKeyword(url) ==
    \E keyword \in explicitKeywords, i \in DOMAIN url :
        /\ i + Len(keyword) - 1 <= Len(url)
        /\ toLowerCase(SubSeq(url, i, i + Len(keyword) - 1)) = keyword

\* The URL has one of the allow-listed hosts somewhere in it.
AllowListed(url) ==
    \E source \in safeImageSources, i \in DOMAIN url :
        /\ i + Len(source) - 1 <= Len(url)
        /\ toLowerCase(SubSeq(url, i, i + Len(source) - 1)) = source

Marked(s, e) ==
    \/ e \in s.textElementsProcessed \cup s.imageElementsProcessed
    \/ EXCLUSION_CLASS \in s.classes[e]

\* C35: the scanner never puts a text element without text or an image
\* without source on the queue and does not mark it as processed, and an
\* element that has got its content is enqueued by the scan that finds it,
\* exactly once: in every state a scan enqueues and marks each connected
\* element with content that was not enqueued before, leaves every element
\* without content as it was, and no element has been enqueued twice.
C35_EmptySkippedUntilFilled ==
    /\ \A e \in Elems : enqueued[e] <= 1
    /\ isEnabled =>
          \A rnd \in Rnd :
              LET t == scanContentForModeration(Cur, rnd)
              IN \A e \in Elems :
                     /\ (Connected(Cur, e) /\ content[e] # "" /\ enqueued[e] = 0)
                            => /\ t.enqueued[e] = 1
                               /\ Marked(t, e)
                     /\ content[e] = ""
                            => /\ t.enqueued[e] = enqueued[e]
                               /\ Marked(t, e) = Marked(Cur, e)

\* A scan has passed over a connected element without content: protection
\* has been enabled since the script started, the element is empty, not
\* enqueued and not marked, and no rescan is pending for its insertion.
C35_Witness ==
    /\ isEnabled
    /\ toggles = 0
    /\ Observing(Cur)
    /\ \A i \in DOMAIN rescanTimers : rescanTimers[i] = <<>>
    /\ \E e \in Elems :
          /\ Connected(Cur, e)
          /\ content[e] = ""
          /\ enqueued[e] = 0
          /\ ~Marked(Cur, e)
    /\ \E e \in Elems : enqueued[e] = 1

(* ------------------------------- C36 ---------------------------------- *)
\* C36: if protection stays enabled from some point on, then from some point
\* on every item that was enqueued has been dispatched, the queue is empty
\* and currentlyProcessing is false; this includes the items that were left
\* in the queue while protection was disabled.  (No element is enqueued
\* twice, so an item that has been dispatched stays dispatched.)
C36_QueueDrains ==
    <>[]isEnabled =>
        <>[](/\ processingQueue = <<>>
             /\ ~currentlyProcessing
             /\ \A e \in Elems : dispatched[e] >= enqueued[e])

\* Protection is disabled and an item is stranded in the queue: no batch is
\* in flight and no inter-batch timeout is pending, so only the scan of a
\* later toggleProtection(true) can have it dispatched.
C36_Witness ==
    /\ ~isEnabled
    /\ toggles < MaxToggles
    /\ processingQueue # <<>>
    /\ ~currentlyProcessing
    /\ batchTimers = 0
    /\ \E e \in Range(processingQueue) : dispatched[e] = 0

(* ------------------------------- C37 ---------------------------------- *)
\* Protection is enabled and the element is in the page with content, and no
\* scan has enqueued it so far.
Unscanned(e) ==
    /\ isEnabled
    /\ Connected(Cur, e)
    /\ content[e] # ""
    /\ enqueued[e] = 0

\* The elements a page can hold: the paragraphs it inserts and the images.
PageElems == {e \in Elems : IsText(e) => e <= NumDynamic}

\* No timeout of a debounced rescan is pending.
NoRescanPending == \A i \in DOMAIN rescanTimers : rescanTimers[i] = <<>>

\* C37: whenever protection is enabled, an element added to the page is
\* eventually scanned (or protection is switched off before that), whether
\* protection was enabled at initialisation or switched on later by
\* toggleProtection(true); the timeouts the debounce sets are taken to come
\* due, so that none stays pending for ever.
C37_AddedEventuallyScanned ==
    []<>NoRescanPending =>
        \A e \in PageElems : Unscanned(e) ~> ~Unscanned(e)

(* ------------------------------- C38 ---------------------------------- *)
\* C38: no history entry is lost under concurrency: once every get and set
\* callback of the outstanding saveFilterHistory calls has run, in whatever
\* order, the stored history holds one entry per call (the calls made here
\* stay below the cap of 100).
C38_NoHistoryLost ==
    (/\ historyOps = EmptyBag
     /\ SumOver(historyCalls, Elems) <= HISTORY_CAP) =>
        /\ Len(filterHistory) = SumOver(historyCalls, Elems)
        /\ \A e \in Elems :
              Cardinality({i \in DOMAIN filterHistory :
                              filterHistory[i].originalContent = e})
                  = historyCalls[e]

(* ------------------------------- C39 ---------------------------------- *)
\* The three states of an element the scanner has taken up.
Waiting(e) ==
    /\ Occurrences(processingQueue, e) = 1
    /\ dispatched[e] = 0
    /\ e \notin inFlight

InBatch(e) ==
    /\ e \notin Range(processingQueue)
    /\ dispatched[e] = 1
    /\ e \in inFlight
    /\ currentlyProcessing

Finished(e) ==
    /\ e \notin Range(processingQueue)
    /\ dispatched[e] = 1
    /\ e \notin inFlight
    /\ outcome[e] # "none"

\* What the checkStatus handler reports.
elementsScanned ==
    Cardinality(textElementsProcessed) + Cardinality(imageElementsProcessed)

queueLength == Len(processingQueue)

\* C39: no work is lost or duplicated: every element of the processed sets
\* is waiting in the queue, in the batch in flight or finished, and in one of
\* the three only; an element outside the sets is in none of them; no item is
\* dispatched more often than it was enqueued, nor twice; and the queueLength
\* of checkStatus never exceeds its elementsScanned.
C39_NoWorkLostOrDuplicated ==
    /\ \A e \in textElementsProcessed \cup imageElementsProcessed :
          /\ Waiting(e) \/ InBatch(e) \/ Finished(e)
          /\ ~(Waiting(e) /\ InBatch(e))
          /\ ~(Waiting(e) /\ Finished(e))
          /\ ~(InBatch(e) /\ Finished(e))
          /\ enqueued[e] = 1
    /\ \A e \in Elems \ (textElementsProcessed \cup imageElementsProcessed) :
          /\ e \notin Range(processingQueue)
          /\ e \notin inFlight
          /\ enqueued[e] = 0
          /\ dispatched[e] = 0
    /\ \A e \in Elems : dispatched[e] <= enqueued[e]
    /\ queueLength <= elementsScanned

\* One element is in the batch in flight while another waits in the queue,
\* and a status request would report one queued item of two scanned.
C39_Witness ==
    /\ \E e \in Elems : InBatch(e)
    /\ \E e \in Elems : Waiting(e)
    /\ queueLength = 1
    /\ elementsScanned = 2

(* ------------------------------- C40 ---------------------------------- *)
\* C40: while protection is disabled the page stays unredacted: in a step
\* that starts and ends with protection switched off by a toggleProtection
\* message, no element is redacted, encrypted, blurred or blocked, the map of
\* encrypted elements stays empty, and neither updateStats nor
\* saveFilterHistory is called, also when the step is the completion of a
\* classification call that was in flight at the time of the toggle.
C40_DisabledStaysUnredacted ==
    [][(toggles > 0 /\ ~isEnabled /\ ~isEnabled') =>
          /\ redacted' = redacted
          /\ \A e \in Elems :
                /\ ENCRYPTED_CLASS \in classes'[e] => ENCRYPTED_CLASS \in classes[e]
                /\ filter'[e] = "blur(20px)" => filter[e] = "blur(20px)"
                /\ notice'[e] = notice[e]
          /\ encryptedElements' = EmptyMap
          /\ statsCalls' = statsCalls
          /\ historyCalls' = historyCalls]_vars

====
